---- MODULE Spec2Model ----
(***************************************************************************)
(* Verification model of vmrt_tesseract_utilities.                         *)
(*                                                                         *)
(* Part I  : the ledger-driven batch coordinator                           *)
(*           (scripts/transcribe_pdfs.py, vmrt_tesseract_utilities/        *)
(*           database.py).                                                 *)
(* Part II : the three granularity strategies                              *)
(*           (vmrt_tesseract_utilities/tesseract_operations.py) together   *)
(*           with the output sink of scripts/image_to_text.py, the         *)
(*           ReportData object (vmrt_tesseract_utilities/report_data.py)   *)
(*           and run_tesseract over a JSON list of files                   *)
(*           (scripts/image_to_text.py).                                   *)
(* Part III: the stages that work on the stored OCR outputs                *)
(*           (scripts/replace_strings.py, scripts/scrubbers/               *)
(*           pii_scrubber.py).                                             *)
(***************************************************************************)
EXTENDS Integers, Sequences, FiniteSets, TLC

\* ------------------------------------------------------------------ bounds
NumAssets == 2     \* rows of transcription_input
MaxUnits  == 2     \* longest unit list process_row hands to the coordinator

\* Python's None / SQL NULL for a nullable column or a missing joined row.
None == [none |-> TRUE]

\* The values --document-type may take.
DocumentTypes == {"document", "page", "block"}

\* The values --document-type is given: the three types and another word.
DocumentTypeArgs == DocumentTypes \cup {"line"}

\* The confidence the OCR engine reports for unit k of a file (MeanTextConf).
Confidence(k) == 80 + 5 * k

\* ----------------------------------------------------------------- ledger
\* A row of transcription_input: the file (stem and extension of
\* input_file) and the requested document type.
TranscriptionInput ==
    [input_file : [stem : 1..NumAssets, ext : {"pdf", "msg"}],
     document_type : DocumentTypes]

\* A fresh, unflushed TranscriptionOutput(): every column NULL, no id yet.
TranscriptionOutput ==
    [id |-> 0, input_id |-> 0, ocr_output_file |-> None, ocr_confidence |-> 0,
     list_replacement_output_file |-> None,
     pii_scrubber_output_file |-> None,
     pii_scrubber_confidence_file |-> None]

Min(S) == CHOOSE x \in S : \A y \in S : x <= y
Max(S) == CHOOSE x \in S : \A y \in S : x >= y

RECURSIVE SortedSeq(_)
SortedSeq(S) == IF S = {} THEN <<>> ELSE <<Min(S)>> \o SortedSeq(S \ {Min(S)})

RECURSIVE Flatten(_)
Flatten(ss) == IF ss = <<>> THEN <<>> ELSE Head(ss) \o Flatten(Tail(ss))

OutputById(outs, oid) == CHOOSE o \in outs : o.id = oid

\* Mutant of OuterJoin: the query reads transcription_input alone.
OuterJoinNoJoin(ins, outs) ==
    [i \in 1..Len(ins) |-> [input |-> i, output |-> 0]]

\* session.query(TranscriptionInput, TranscriptionOutput)
\*        .outerjoin(TranscriptionInput.assets)
\* one pair per (input, output of that input), and a pair with a NULL output
\* for an input that has no output; rows come in primary-key order.
OuterJoin(ins, outs) ==
    Flatten([i \in 1..Len(ins) |->
        LET mine == {o.id : o \in {x \in outs : x.input_id = i}}
        IN  IF mine = {} THEN << [input |-> i, output |-> 0] >>
            ELSE [k \in 1..Cardinality(mine) |->
                      [input |-> i, output |-> SortedSeq(mine)[k]]]])

\* .where(TranscriptionInput.input_file.like('%.pdf'))
LikePdf(input_file) == input_file.ext = "pdf"

\* Mutant of OcrOutputFileIsNull: the where clause is missing.
OcrOutputFileAny(outs, pair) == TRUE

\* .where(TranscriptionOutput.ocr_output_file == None): true of the NULL row
\* of the outer join and of an output whose ocr_output_file is NULL.
OcrOutputFileIsNull(outs, pair) ==
    \/ pair.output = 0
    \/ OutputById(outs, pair.output).ocr_output_file = None

Where(ins, outs, document_type, pair) ==
    /\ LikePdf(ins[pair.input].input_file)
    /\ ins[pair.input].document_type = document_type
    /\ OcrOutputFileIsNull(outs, pair)

\* .limit(chunk_size).offset(offset)
LimitOffset(rows, chunk_size, offset) ==
    SubSeq(rows, offset + 1, Min({offset + chunk_size, Len(rows)}))

\* The whole query of run_tesseract.
Query(ins, outs, document_type, chunk_size, offset) ==
    LimitOffset(
        SelectSeq(OuterJoin(ins, outs),
                  LAMBDA pair : Where(ins, outs, document_type, pair)),
        chunk_size, offset)

\* ------------------------------------------------ what process_row returns
\* The coordinator consumes each element of process_row's result through the
\* keys "page", "block", "content" and "confidence".  The result is drawn
\* from the unit lists a file of at most MaxUnits recognised units can give:
\* unit k of a "page" run is page k, unit k of a "block" run is block k of
\* page 1, and a "document" run yields at most the one unit (1, 1).
Unit(document_type, k) ==
    [page       |-> IF document_type = "page" THEN k ELSE 1,
     block      |-> IF document_type = "block" THEN k ELSE 1,
     content    |-> <<"t", k>>,
     confidence |-> Confidence(k)]

ProcessRowOutputs(document_type) ==
    {[k \in 1..n |-> Unit(document_type, k)] :
        n \in 0..(IF document_type = "document" THEN 1 ELSE MaxUnits)}

\* ------------------------------------------------------------ coordinator
\* base_path, _get_and_create_output_directory.
BasePath(document_type) == <<"unstructured_text", document_type>>

\* splitext(basename(input_file))[0]
Stem(input_file) == input_file.stem

\* f'{base_path}/{bits[0]}-{page}-{block}.txt'
OutputPath(base_path, input_file, ocr_result) ==
    [dir   |-> base_path,
     stem  |-> Stem(input_file),
     page  |-> ocr_result.page,
     block |-> ocr_result.block]

\* One pass of `for ocr_result in output` for one (db_input, db_output):
\* the object bound to db_output after the loop (None when there was no
\* unit and the join gave no output row).  A TranscriptionOutput is created
\* only while db_output is None, so every later unit writes its path and
\* confidence onto that same object.
RECURSIVE ForOcrResult(_, _, _, _, _)
ForOcrResult(base_path, ins, db_input, db_output, output) ==
    IF output = <<>> THEN db_output
    ELSE LET ocr_result == Head(output)
             obj == IF db_output = None THEN TranscriptionOutput ELSE db_output
         IN  ForOcrResult(base_path, ins, db_input,
                 [obj EXCEPT
                     !.ocr_output_file =
                         OutputPath(base_path, ins[db_input].input_file, ocr_result),
                     !.ocr_confidence = ocr_result.confidence,
                     !.input_id = db_input],
                 Tail(output))

\* session.add_all(db_output_logs): db_output_logs holds the one db_output
\* object (once per unit), so the session gains that object, or nothing when
\* the loop body never ran.
AddAll(session, db_output, output) ==
    IF output = <<>> THEN session ELSE Append(session, db_output)

\* _write_file for the first n units of output: open(path, 'w') truncates,
\* so a path holds the content written last.
RECURSIVE WriteFiles(_, _, _, _, _)
WriteFiles(files, base_path, input_file, output, n) ==
    IF n = 0 THEN files
    ELSE LET before == WriteFiles(files, base_path, input_file, output, n - 1)
             path   == OutputPath(base_path, input_file, output[n])
         IN  [p \in DOMAIN before \cup {path} |->
                 IF p = path THEN output[n].content ELSE before[p]]

\* The transaction of `with sessionmaker.begin() as session` ends without an
\* exception: pending objects are INSERTed with the next autoincrement ids,
\* objects loaded by the query are UPDATEd.
RECURSIVE Commit(_, _)
Commit(outs, session) ==
    IF session = <<>> THEN outs
    ELSE LET obj == Head(session)
             nid == IF outs = {} THEN 1 ELSE Max({o.id : o \in outs}) + 1
         IN  Commit(
                 IF obj.id = 0
                 THEN outs \cup {[obj EXCEPT !.id = nid]}
                 ELSE {o \in outs : o.id # obj.id} \cup {obj},
                 Tail(session))

\* Mutant of Rollback: what was added to the session is flushed and kept.
RollbackKeepsSession(outs, session) == Commit(outs, session)

\* The transaction ends with an exception, or the process dies: nothing of
\* the session reaches the tables.
Rollback(outs, session) == outs

\* =================================================================
\* Part II: ReportData, the output sink and the granularity strategies
\* =================================================================
MaxPages == 2      \* pages of a source file
MaxBoxes == 2      \* text-line regions of a page

\* report_data.item_keys
item_keys ==
    {"subject_id", "origin_filepath", "origin_filename", "origin_ext",
     "status", "granularity", "confidence", "output_filepath",
     "output_filename", "output_ext", "page", "block",
     "scrubbed_output_filepath", "scrubbed_confidence_filepath"}

\* ReportData.set with a key of item_keys: self.data[key] = value.
Set(data, key, value) ==
    [k \in DOMAIN data \cup {key} |-> IF k = key THEN value ELSE data[k]]

\* ReportData.set_output_file / __set_file__('output', path).
SetOutputFile(data, path) ==
    Set(Set(Set(data, "output_filepath", path),
            "output_filename", [stem |-> path.stem, count |-> path.count]),
        "output_ext", "txt")

\* Mutant of ReportDataSetData: the keys of item_keys are stored before the
\* error is raised for the others.
ReportDataSetDataPartial(data, d) ==
    IF DOMAIN d # {} /\ ~(DOMAIN d \subseteq item_keys)
    THEN [data |-> [k \in DOMAIN data \cup (DOMAIN d \cap item_keys) |->
                       IF k \in DOMAIN d THEN d[k] ELSE data[k]],
          raised |-> TRUE]
    ELSE [data |-> [k \in DOMAIN data \cup DOMAIN d |->
                       IF k \in DOMAIN d THEN d[k] ELSE data[k]],
          raised |-> FALSE]

\* ReportData.set_data: every key is validated before any key is stored.
ReportDataSetData(data, d) ==
    IF DOMAIN d # {} /\ ~(DOMAIN d \subseteq item_keys)
    THEN [data |-> data, raised |-> TRUE]
    ELSE [data |-> [k \in DOMAIN data \cup DOMAIN d |->
                       IF k \in DOMAIN d THEN d[k] ELSE data[k]],
          raised |-> FALSE]

\* Mutant of ReportDataInit: the constructor ignores its data argument.
ReportDataInitEmpty(d) == [data |-> <<>>, raised |-> FALSE]

\* ReportData.__init__(data=d).
ReportDataInit(d) ==
    IF DOMAIN d # {} THEN ReportDataSetData(<<>>, d)
    ELSE [data |-> <<>>, raised |-> FALSE]

\* Mutant of ReportDataSet: the key is not validated.
ReportDataSetAnyKey(data, key, value) ==
    [data |-> Set(data, key, value), raised |-> FALSE]

\* ReportData.set: RuntimeError for a key outside item_keys.
ReportDataSet(data, key, value) ==
    IF key \notin item_keys THEN [data |-> data, raised |-> TRUE]
    ELSE [data |-> Set(data, key, value), raised |-> FALSE]

\* ReportData.get: RuntimeError for a key that is not in self.data; else the
\* value, given as a one-element sequence.
ReportDataGet(data, key) ==
    IF key \notin DOMAIN data THEN [raised |-> TRUE, value |-> None]
    ELSE [raised |-> FALSE, value |-> <<data[key]>>]

\* ReportData.__json__: the dict itself.
ReportDataJson(data) == data

\* json.dump of the dict and json.load of the text: the values under page,
\* block and confidence are Python numbers and are written as JSON numbers,
\* the others are strings and are written as JSON strings.
NumberKeys == {"page", "block", "confidence"}

JsonDump(obj) ==
    [k \in DOMAIN obj |->
        IF k \in NumberKeys THEN [number |-> obj[k]] ELSE [string |-> obj[k]]]

JsonLoad(text) ==
    [k \in DOMAIN text |->
        IF "number" \in DOMAIN text[k] THEN text[k].number
        ELSE text[k].string]

\* What the OCR engine does with one image or one region: it raises, or it
\* returns a text (GetUTF8Text) and a confidence (MeanTextConf).
Texts == {<<>>, <<"a">>, <<"b">>}
MeanTextConfs == {0, 85, 90}
Raises == [ok |-> FALSE, text |-> <<>>, conf |-> 0]
Recognized(text, conf) == [ok |-> TRUE, text |-> text, conf |-> conf]
PageOutcomes == {Raises} \cup {Recognized(t, c) : t \in Texts, c \in MeanTextConfs}
BoxOutcomes ==
    {Raises, Recognized(<<>>, 0), Recognized(<<"a">>, 85), Recognized(<<"b">>, 90)}

SeqsUpTo(S, n) == UNION {[1..k -> S] : k \in 0..n}

\* A page of a file read by regions: GetComponentImages raises, or gives the
\* boxes, each with its own recognition outcome.
BlockPages ==
    {[ok |-> FALSE, boxes |-> <<>>]} \cup
    {[ok |-> TRUE, boxes |-> b] : b \in SeqsUpTo(BoxOutcomes, MaxBoxes)}

\* A source file as the OCR backend sees it: pdf2image.convert_from_path
\* raises (raster = FALSE), or gives the page images.
SourceFiles(strategy) ==
    {[raster |-> FALSE, pages |-> <<>>]} \cup
    {[raster |-> TRUE, pages |-> ps] :
        ps \in SeqsUpTo(IF strategy = "block" THEN BlockPages ELSE PageOutcomes,
                        MaxPages)}

\* The row handed to process_row: a ReportData with its origin file set.
OriginRow ==
    [origin_filepath |-> [stem |-> 1, ext |-> "pdf"],
     origin_filename |-> [stem |-> 1, ext |-> "pdf"],
     origin_ext      |-> "pdf"]

\* The output strategy the operation was built with: None, the strategy of
\* get_output_strategy, or that strategy on a disk that refuses the write.
Sinks == {"none", "ok", "fails"}

\* Mutant of OutputOcrData: the file is opened for appending.
OutputOcrDataAppending(sink, strategy_type, row, ocr_output, fs) ==
    IF sink = "none" \/ Len(ocr_output) = 0
    THEN [row |-> row, files |-> fs, raised |-> FALSE]
    ELSE IF "origin_filename" \notin DOMAIN row
    THEN [row |-> row, files |-> fs, raised |-> TRUE]
    ELSE LET count == IF "block" \in DOMAIN row THEN row["block"]
                      ELSE IF "page" \in DOMAIN row THEN row["page"]
                      ELSE 1
             output_path ==
                 [dir   |-> <<"unstructured_text", strategy_type>>,
                  stem  |-> Stem(row["origin_filename"]),
                  count |-> count]
             named == SetOutputFile(row, output_path)
         IN  IF sink = "fails"
             THEN [row |-> named, files |-> fs, raised |-> TRUE]
             ELSE [row |-> named,
                   files |-> [p \in DOMAIN fs \cup {output_path} |->
                                 IF p = output_path /\ p \in DOMAIN fs
                                 THEN fs[p] \o ocr_output
                                 ELSE IF p = output_path THEN ocr_output
                                 ELSE fs[p]],
                   raised |-> FALSE]

\* TesseractOperationBase.__output_ocr_data__ and
\* get_output_strategy.output_strategy: the row after the call, the disk
\* after the call and whether the call raised.
OutputOcrData(sink, strategy_type, row, ocr_output, fs) ==
    IF sink = "none" \/ Len(ocr_output) = 0
    THEN [row |-> row, files |-> fs, raised |-> FALSE]
    ELSE IF ReportDataGet(row, "origin_filename").raised
    THEN [row |-> row, files |-> fs, raised |-> TRUE]
    ELSE LET count == IF "block" \in DOMAIN row THEN row["block"]
                      ELSE IF "page" \in DOMAIN row THEN row["page"]
                      ELSE 1
             output_path ==
                 [dir   |-> <<"unstructured_text", strategy_type>>,
                  stem  |-> Stem(row["origin_filename"]),
                  count |-> count]
             named == SetOutputFile(row, output_path)
         IN  IF sink = "fails"
             THEN [row |-> named, files |-> fs, raised |-> TRUE]
             ELSE [row |-> named,
                   files |-> [p \in DOMAIN fs \cup {output_path} |->
                                 IF p = output_path THEN ocr_output ELSE fs[p]],
                   raised |-> FALSE]

RECURSIVE SumSeq(_)
SumSeq(q) == IF q = <<>> THEN 0 ELSE Head(q) + SumSeq(Tail(q))

\* sum(confidence_scores) / len(confidence_scores), kept as the fraction.
DocConfidence(confidence_scores) ==
    [sum |-> SumSeq(confidence_scores), n |-> Len(confidence_scores)]

\* Mutant of Qualifies: the confidence is not looked at.
QualifiesByTextOnly(ocr_result, confidence) == Len(ocr_result) > 0

\* TesseractOperationDoc: `if len(ocr_result) > 0 and confidence > 0`.
Qualifies(ocr_result, confidence) == Len(ocr_result) > 0 /\ confidence > 0

\* TesseractOperationDoc.process_row, the loop over the page images from
\* image pg on: the exception that ended it ("" if none), page_content and
\* confidence_scores.
RECURSIVE DocPages(_, _, _, _)
DocPages(images, pg, page_content, confidence_scores) ==
    IF pg > Len(images)
    THEN [exc |-> "", page_content |-> page_content,
          confidence_scores |-> confidence_scores]
    ELSE IF ~images[pg].ok
    THEN [exc |-> "RuntimeError", page_content |-> page_content,
          confidence_scores |-> confidence_scores]
    ELSE IF Qualifies(images[pg].text, images[pg].conf)
    THEN DocPages(images, pg + 1, page_content \o <<"\n">> \o images[pg].text,
                  Append(confidence_scores, images[pg].conf))
    ELSE DocPages(images, pg + 1, page_content, confidence_scores)

\* TesseractOperationDoc.process_row: the list it returns, whether an
\* exception left it, the exception its `except` caught, the text it handed
\* to __output_ocr_data__ and the disk afterwards.
ProcessRowDoc(row, file, sink, fs) ==
    LET loop == IF file.raster THEN DocPages(file.pages, 1, <<>>, <<>>)
                ELSE [exc |-> "PDFPageCountError", page_content |-> <<>>,
                      confidence_scores |-> <<>>]
        exc  == IF loop.exc # "" THEN loop.exc
                ELSE IF Len(loop.confidence_scores) = 0 THEN "ZeroDivisionError"
                ELSE ""
        doc_row == IF exc = ""
                   THEN Set(Set(row, "status", "processed"),
                            "confidence", DocConfidence(loop.confidence_scores))
                   ELSE Set(row, "status", "error")
        out == OutputOcrData(sink, "doc", doc_row, loop.page_content, fs)
    IN  [output |-> IF out.raised THEN <<>> ELSE <<out.row>>,
         raised |-> out.raised,
         caught |-> exc,
         handed |-> <<loop.page_content>>,
         files  |-> out.files]

\* The `except` of the Page and Block strategies: the row last bound to
\* page_row / block_row gets status error and is appended; when that object
\* is already the last element of output (aliased), the element changes too.
ExceptAppend(output, last_row, aliased) ==
    IF last_row = None THEN output
    ELSE LET err == Set(last_row, "status", "error")
         IN  Append(IF aliased THEN [output EXCEPT ![Len(output)] = err]
                    ELSE output,
                    err)

\* TesseractOperationPage.process_row from image pg on.
RECURSIVE PagePages(_, _, _, _, _, _, _)
PagePages(row, images, pg, sink, output, handed, fs) ==
    IF pg > Len(images)
    THEN [output |-> output, raised |-> FALSE, caught |-> "",
          handed |-> handed, files |-> fs]
    ELSE LET page_row == Set(row, "page", pg)
         IN  IF ~images[pg].ok
             THEN [output |-> ExceptAppend(output, page_row, FALSE),
                   raised |-> FALSE, caught |-> "RuntimeError",
                   handed |-> handed, files |-> fs]
             ELSE LET out == OutputOcrData(sink, "page", page_row,
                                           images[pg].text, fs)
                  IN  IF out.raised
                      THEN [output |-> ExceptAppend(output, out.row, FALSE),
                            raised |-> FALSE, caught |-> "OSError",
                            handed |-> Append(handed, images[pg].text),
                            files |-> out.files]
                      ELSE PagePages(row, images, pg + 1, sink,
                               Append(output,
                                   Set(Set(out.row, "status", "processed"),
                                       "confidence", images[pg].conf)),
                               Append(handed, images[pg].text), out.files)

\* Mutant of ProcessRowPage: the pages are aggregated into one result, as
\* the Document strategy does.
ProcessRowPageAggregated(row, file, sink, fs) ==
    ProcessRowDoc(row, file, sink, fs)

\* TesseractOperationPage.process_row.
ProcessRowPage(row, file, sink, fs) ==
    IF ~file.raster
    THEN [output |-> ExceptAppend(<<>>, None, FALSE), raised |-> FALSE,
          caught |-> "PDFPageCountError", handed |-> <<>>, files |-> fs]
    ELSE PagePages(row, file.pages, 1, sink, <<>>, <<>>, fs)

\* TesseractOperationBlock.process_row, the loop over the boxes of one page
\* from box i on; block_row is the row of the last box appended so far.
RECURSIVE BlockBoxes(_, _, _, _, _, _, _)
BlockBoxes(row, boxes, i, sink, output, handed, fs) ==
    IF i > Len(boxes)
    THEN [output |-> output, raised |-> FALSE, caught |-> "",
          handed |-> handed, files |-> fs]
    ELSE LET block_row == Set(row, "block", i)
         IN  IF ~boxes[i].ok
             THEN [output |-> ExceptAppend(output, block_row, FALSE),
                   raised |-> FALSE, caught |-> "RuntimeError",
                   handed |-> handed, files |-> fs]
             ELSE LET out == OutputOcrData(sink, "block", block_row,
                                           boxes[i].text, fs)
                  IN  IF out.raised
                      THEN [output |-> ExceptAppend(output, out.row, FALSE),
                            raised |-> FALSE, caught |-> "OSError",
                            handed |-> Append(handed, boxes[i].text),
                            files |-> out.files]
                      ELSE BlockBoxes(row, boxes, i + 1, sink,
                               Append(output,
                                   Set(Set(out.row, "status", "processed"),
                                       "confidence", boxes[i].conf)),
                               Append(handed, boxes[i].text), out.files)

\* TesseractOperationBlock.process_row from image pg on.  When
\* GetComponentImages raises, block_row is still the row of the last box of
\* an earlier page, which is already in output.
RECURSIVE BlockPagesFrom(_, _, _, _, _, _, _)
BlockPagesFrom(row, images, pg, sink, output, handed, fs) ==
    IF pg > Len(images)
    THEN [output |-> output, raised |-> FALSE, caught |-> "",
          handed |-> handed, files |-> fs]
    ELSE IF ~images[pg].ok
    THEN [output |-> ExceptAppend(output,
                        IF output = <<>> THEN None ELSE output[Len(output)],
                        TRUE),
          raised |-> FALSE, caught |-> "RuntimeError",
          handed |-> handed, files |-> fs]
    ELSE LET page == BlockBoxes(row, images[pg].boxes, 1, sink, output,
                                handed, fs)
         IN  IF page.caught # "" THEN page
             ELSE BlockPagesFrom(row, images, pg + 1, sink, page.output,
                                 page.handed, page.files)

\* TesseractOperationBlock.process_row.
ProcessRowBlock(row, file, sink, fs) ==
    IF ~file.raster
    THEN [output |-> ExceptAppend(<<>>, None, FALSE), raised |-> FALSE,
          caught |-> "PDFPageCountError", handed |-> <<>>, files |-> fs]
    ELSE BlockPagesFrom(row, file.pages, 1, sink, <<>>, <<>>, fs)


\* ------------------------------------------------------------------ state
VARIABLES
    inputs,     \* table transcription_input, a sequence indexed by id
    outputs,    \* table transcription_output, the committed rows
    files,      \* text artifacts on disk: path -> content
    run,        \* the coordinator invocation in progress, or the last one
    hist,       \* the windows used and the rows processed so far
    op,         \* one call of process_row: its inputs and what it returned
    report,     \* a ReportData object and the calls made on it
    job,        \* a run of run_tesseract over a JSON list of files
    stage,      \* a run of a stage that works on the stored OCR outputs
    dirs,       \* the output directories run_tesseract has created
    metadata,   \* table transcription_metadata, a sequence indexed by id
    fcall,      \* a call of a function of the utilities: arguments, result
    emr,        \* the directory of medical records and the discovery runs
    retry       \* run_tesseract repeated: its arguments, and the scans' nature

vars ==
    <<inputs, outputs, files, run, hist, op, report, job, stage, dirs,
      metadata, fcall, emr, retry>>

\* The value of a variable that the behaviours at hand do not use.
Unused == [phase |-> "unused"]

Offsets    == 0..(NumAssets - 1)
ChunkSizes == 1..NumAssets

\* No process_row call is being followed.
NoCall ==
    [phase |-> "none", strategy |-> "doc", sink |-> "none",
     file |-> [raster |-> FALSE, pages |-> <<>>],
     output |-> <<>>, raised |-> FALSE, caught |-> "", handed |-> <<>>,
     engine |-> <<>>]

IdleRun ==
    [status |-> "idle", document_type |-> "page", chunk_size |-> 1,
     offset |-> 0, rows |-> <<>>, idx |-> 1, session |-> <<>>,
     produced |-> <<>>, snapshot |-> {}]

\* hist follows the invocations while they all have the same document type,
\* use pairwise disjoint windows and commit; from then on it is Void.
Void ==
    [void |-> TRUE, type |-> "any", covered |-> {},
     processed |-> [i \in 1..NumAssets |-> 0]]

\* The ledgers the model starts from: transcription_input as
\* create_transcription_process leaves it, one row per discovered file; all
\* files are PDFs to be read by page, but for at most one file that is
\* either not a PDF or of the "document" type.
PagePdf(i) ==
    [input_file |-> [stem |-> i, ext |-> "pdf"], document_type |-> "page"]

OtherInputs(j) ==
    {x \in TranscriptionInput :
        /\ x.input_file.stem = j
        /\ \/ x.input_file.ext = "msg" /\ x.document_type = "page"
           \/ x.input_file.ext = "pdf" /\ x.document_type = "document"}

InitialInputs ==
    {[i \in 1..NumAssets |-> PagePdf(i)]} \cup
    UNION {{[[i \in 1..NumAssets |-> PagePdf(i)] EXCEPT ![j] = other] :
               other \in OtherInputs(j)} : j \in 1..NumAssets}

InitCoordinator ==
    /\ inputs \in InitialInputs
    /\ outputs = {}
    /\ files = <<>>
    /\ dirs = {}
    /\ retry = Unused /\ emr = Unused /\ metadata = <<>> /\ fcall = Unused
    /\ run = IdleRun
    /\ hist = [Void EXCEPT !.void = FALSE]
    /\ op = NoCall
    /\ report = Unused /\ job = Unused /\ stage = Unused

\* The (db_input, db_output) pair the loop of run_tesseract is at.
CurrentPair == run.rows[run.idx]

DbOutput(pair) ==
    IF pair.output = 0 THEN None ELSE OutputById(outputs, pair.output)

Window(offset, chunk_size) ==
    offset..(offset + chunk_size - 1) \cap 0..(NumAssets - 1)

\* run_tesseract up to and including query.all(): the transaction begins and
\* the window of pending rows is read.
RunTesseractQuery(document_type, chunk_size, offset) ==
    /\ run.status # "running"
    /\ run' = [status |-> "running", document_type |-> document_type,
               chunk_size |-> chunk_size, offset |-> offset,
               rows |-> Query(inputs, outputs, document_type, chunk_size, offset),
               idx |-> 1, session |-> <<>>,
               produced |-> <<>>, snapshot |-> outputs]
    /\ hist' = IF \/ hist.void
                  \/ hist.type \notin {"any", document_type}
                  \/ Window(offset, chunk_size) \cap hist.covered # {}
               THEN Void
               ELSE [hist EXCEPT
                       !.type = document_type,
                       !.covered = @ \cup Window(offset, chunk_size)]
    /\ dirs' = dirs \cup {BasePath(document_type)}
    /\ UNCHANGED <<retry, emr, metadata, fcall, report, job, stage, inputs, outputs, files, op>>

\* run_tesseract with a document type that is not one of the three: the
\* output directory is got and created, then ValueError is raised.
RunTesseractRejects(document_type) ==
    /\ run.status # "running"
    /\ document_type \notin DocumentTypes
    /\ dirs' = dirs \cup {BasePath(document_type)}
    /\ run' = [IdleRun EXCEPT !.status = "rejected",
                              !.document_type = document_type]
    /\ UNCHANGED <<retry, emr, metadata, fcall, report, job, stage, inputs, outputs, files, hist, op>>

\* One iteration of `for db_input, db_output in query.all()`: process_row
\* returns its units and every unit's file is written.
RunTesseractRow ==
    /\ run.status = "running"
    /\ run.idx <= Len(run.rows)
    /\ \E output \in ProcessRowOutputs(run.document_type) :
        LET pair      == CurrentPair
            base_path == BasePath(run.document_type)
            db_output == ForOcrResult(base_path, inputs, pair.input,
                                      DbOutput(pair), output)
        IN  /\ files' = WriteFiles(files, base_path,
                                   inputs[pair.input].input_file,
                                   output, Len(output))
            /\ run' = [run EXCEPT
                         !.idx = @ + 1,
                         !.session = AddAll(@, db_output, output),
                         !.produced = @ \o [k \in 1..Len(output) |->
                             [input |-> pair.input, unit |-> output[k]]]]
            /\ hist' = IF hist.void THEN Void
                       ELSE [hist EXCEPT
                               !.processed[pair.input] = Min({@ + 1, 2})]
    /\ UNCHANGED <<retry, emr, metadata, fcall, dirs, report, job, stage, inputs, outputs, op>>

\* op.process_row raises: the exception leaves the loop and the `with`
\* block, and the transaction is rolled back.
ProcessRowRaises ==
    /\ run.status = "running"
    /\ run.idx <= Len(run.rows)
    /\ run' = [IdleRun EXCEPT !.status = "failed", !.idx = run.idx]
    /\ outputs' = Rollback(outputs, run.session)
    /\ hist' = Void
    /\ UNCHANGED <<retry, emr, metadata, fcall, dirs, report, job, stage, inputs, files, op>>

\* _write_file raises at unit n of the current row (the units before it are
\* on disk): the exception leaves the loop and the `with` block.
WriteFileRaises ==
    /\ run.status = "running"
    /\ run.idx <= Len(run.rows)
    /\ \E output \in ProcessRowOutputs(run.document_type) :
       \E n \in 1..Len(output) :
        files' = WriteFiles(files, BasePath(run.document_type),
                            inputs[CurrentPair.input].input_file,
                            output, n - 1)
    /\ run' = [IdleRun EXCEPT !.status = "failed", !.idx = run.idx]
    /\ outputs' = Rollback(outputs, run.session)
    /\ hist' = Void
    /\ UNCHANGED <<retry, emr, metadata, fcall, dirs, report, job, stage, inputs, op>>

\* The process dies (or the commit itself fails) before the transaction is
\* committed.
Crash ==
    /\ run.status = "running"
    /\ run' = [IdleRun EXCEPT !.status = "crashed", !.idx = run.idx]
    /\ outputs' = Rollback(outputs, run.session)
    /\ hist' = Void
    /\ UNCHANGED <<retry, emr, metadata, fcall, dirs, report, job, stage, inputs, files, op>>

\* The loop is over and the `with sessionmaker.begin()` block exits normally.
RunTesseractCommit ==
    /\ run.status = "running"
    /\ run.idx > Len(run.rows)
    /\ outputs' = Commit(outputs, run.session)
    /\ run' = [IdleRun EXCEPT !.status = "committed"]
    /\ UNCHANGED <<retry, emr, metadata, fcall, dirs, report, job, stage, inputs, files, hist, op>>

Next ==
    \/ \E document_type \in DocumentTypes, chunk_size \in ChunkSizes,
          offset \in Offsets :
          RunTesseractQuery(document_type, chunk_size, offset)
    \/ \E document_type \in DocumentTypeArgs : RunTesseractRejects(document_type)
    \/ RunTesseractRow
    \/ ProcessRowRaises
    \/ WriteFileRaises
    \/ Crash
    \/ RunTesseractCommit

Spec == InitCoordinator /\ [][Next]_vars

\* ------------------------------------------------- the OCR engine, scoped
\* What happens to tesserocr.PyTessBaseAPI instances during process_row:
\* instance number api is constructed for page image number image
\* (acquire), has SetImage / GetComponentImages / SetRectangle /
\* GetUTF8Text / MeanTextConf called on it (use), and is ended (release).
Acquire(api, image) == [event |-> "acquire", api |-> api, image |-> image]
Use(api, image)     == [event |-> "use", api |-> api, image |-> image]
Release(api, image) == [event |-> "release", api |-> api, image |-> image]

\* Mutant of EngineExit: the instance is ended by a call at the end of the
\* block, which an exception skips.
EngineExitOnSuccess(api, image, raised) ==
    IF raised THEN <<>> ELSE <<Release(api, image)>>

\* The end of `with tesserocr.PyTessBaseAPI(...) as api`: __exit__ ends the
\* instance however the block is left.
EngineExit(api, image, raised) == <<Release(api, image)>>

\* The output strategy raises for this unit.
SinkRaises(sink, strategy_type, row, ocr_output) ==
    OutputOcrData(sink, strategy_type, row, ocr_output, <<>>).raised

\* TesseractOperationDoc.process_row, the engine events from image pg on.
RECURSIVE DocEngine(_, _)
DocEngine(images, pg) ==
    IF pg > Len(images) THEN <<>>
    ELSE <<Acquire(pg, pg), Use(pg, pg)>>
             \o EngineExit(pg, pg, ~images[pg].ok)
             \o (IF images[pg].ok THEN DocEngine(images, pg + 1) ELSE <<>>)

\* TesseractOperationPage.process_row: the output strategy is called inside
\* the with block.
RECURSIVE PageEngine(_, _, _, _)
PageEngine(row, images, pg, sink) ==
    IF pg > Len(images) THEN <<>>
    ELSE LET raised ==
                 \/ ~images[pg].ok
                 \/ SinkRaises(sink, "page", Set(row, "page", pg),
                               images[pg].text)
         IN  <<Acquire(pg, pg), Use(pg, pg)>>
                 \o EngineExit(pg, pg, raised)
                 \o (IF raised THEN <<>>
                     ELSE PageEngine(row, images, pg + 1, sink))

\* TesseractOperationBlock.process_row, the boxes of image pg from box i on:
\* the uses of the instance and whether an exception ended the loop.
RECURSIVE BoxEngine(_, _, _, _, _)
BoxEngine(row, boxes, i, sink, pg) ==
    IF i > Len(boxes) THEN [events |-> <<>>, raised |-> FALSE]
    ELSE IF \/ ~boxes[i].ok
            \/ SinkRaises(sink, "block", Set(row, "block", i), boxes[i].text)
    THEN [events |-> <<Use(pg, pg)>>, raised |-> TRUE]
    ELSE LET rest == BoxEngine(row, boxes, i + 1, sink, pg)
         IN  [events |-> <<Use(pg, pg)>> \o rest.events,
              raised |-> rest.raised]

RECURSIVE BlockEngine(_, _, _, _)
BlockEngine(row, images, pg, sink) ==
    IF pg > Len(images) THEN <<>>
    ELSE LET boxes == IF images[pg].ok
                      THEN BoxEngine(row, images[pg].boxes, 1, sink, pg)
                      ELSE [events |-> <<>>, raised |-> TRUE]
         IN  <<Acquire(pg, pg), Use(pg, pg)>> \o boxes.events
                 \o EngineExit(pg, pg, boxes.raised)
                 \o (IF boxes.raised THEN <<>>
                     ELSE BlockEngine(row, images, pg + 1, sink))

\* The engine events of one process_row call.
EngineEvents(strategy, row, file, sink) ==
    IF ~file.raster THEN <<>>
    ELSE IF strategy = "doc" THEN DocEngine(file.pages, 1)
    ELSE IF strategy = "page" THEN PageEngine(row, file.pages, 1, sink)
    ELSE BlockEngine(row, file.pages, 1, sink)

\* ------------------------------------------------ the strategies, called
Strategies == {"doc", "page", "block"}

\* A process_row call about to be made: any strategy, any sink, any file.
InitOperations ==
    /\ inputs = [i \in 1..NumAssets |-> PagePdf(i)]
    /\ outputs = {}
    /\ files = <<>>
    /\ dirs = {}
    /\ retry = Unused /\ emr = Unused /\ metadata = <<>> /\ fcall = Unused
    /\ run = IdleRun
    /\ hist = Void
    /\ report = Unused /\ job = Unused /\ stage = Unused
    /\ \E strategy \in Strategies, sink \in Sinks :
       \E file \in SourceFiles(strategy) :
          op = [NoCall EXCEPT !.phase = "ready", !.strategy = strategy,
                              !.sink = sink, !.file = file]

Returned(result) ==
    /\ op' = [op EXCEPT !.phase = "done", !.output = result.output,
                        !.raised = result.raised, !.caught = result.caught,
                        !.handed = result.handed,
                        !.engine = EngineEvents(op.strategy, OriginRow,
                                                op.file, op.sink)]
    /\ files' = result.files
    /\ UNCHANGED <<retry, emr, metadata, fcall, dirs, report, job, stage, inputs, outputs, run, hist>>

TesseractOperationDoc ==
    /\ op.phase = "ready" /\ op.strategy = "doc"
    /\ Returned(ProcessRowDoc(OriginRow, op.file, op.sink, files))

TesseractOperationPage ==
    /\ op.phase = "ready" /\ op.strategy = "page"
    /\ Returned(ProcessRowPage(OriginRow, op.file, op.sink, files))

TesseractOperationBlock ==
    /\ op.phase = "ready" /\ op.strategy = "block"
    /\ Returned(ProcessRowBlock(OriginRow, op.file, op.sink, files))

NextOperations ==
    \/ TesseractOperationDoc
    \/ TesseractOperationPage
    \/ TesseractOperationBlock

SpecOperations == InitOperations /\ [][NextOperations]_vars

\* ------------------------------------------- ReportData and the sink, called
\* The keys the calls are made with; "colour" is not one of item_keys.
TriedKeys == {"page", "block", "colour"}

ValuesOf(key) ==
    IF key = "page" THEN 1..MaxPages
    ELSE IF key = "block" THEN 1..MaxBoxes
    ELSE {"red"}

\* The paths set_output_file is called with.
TriedPaths(tag) ==
    {[dir |-> <<"unstructured_text", tag>>, stem |-> 1, count |-> c] :
        c \in 1..Max({MaxPages, MaxBoxes})}

\* The dicts ReportData is constructed from and set_data is called with.
TriedDicts ==
    {<<>>, OriginRow, [page |-> 1, colour |-> "red"]}

NoArgs == [name |-> "init", key |-> "", text |-> <<>>]

\* A ReportData has been constructed; the output strategy of
\* get_output_strategy at hand writes under the directory of one strategy
\* type, on a disk that takes the writes or refuses them.
InitReportData ==
    /\ inputs = [i \in 1..NumAssets |-> PagePdf(i)]
    /\ outputs = {}
    /\ files = <<>>
    /\ dirs = {}
    /\ retry = Unused /\ emr = Unused /\ metadata = <<>> /\ fcall = Unused
    /\ run = IdleRun
    /\ hist = Void
    /\ op = NoCall
    /\ job = Unused /\ stage = Unused
    /\ \E d \in TriedDicts, tag \in Strategies, sink \in {"ok", "fails"} :
        LET made == ReportDataInit(d)
        IN  report = [phase |-> IF made.raised THEN "unborn" ELSE "live",
                      tag |-> tag, sink |-> sink,
                      data |-> made.data, raised |-> made.raised,
                      call |-> NoArgs,
                      before |-> [data |-> <<>>, files |-> <<>>],
                      returned |-> None]

\* The call made on the object: its arguments, the object and the disk
\* before it, and what it did.
Called(call, result, returned) ==
    /\ report' = [report EXCEPT
                    !.data = result.data, !.raised = result.raised,
                    !.call = call,
                    !.before = [data |-> report.data, files |-> files],
                    !.returned = returned]
    /\ UNCHANGED <<retry, emr, metadata, fcall, dirs, inputs, outputs, run, hist, op, job, stage>>

ReportSet(key, value) ==
    /\ report.phase = "live"
    /\ Called([NoArgs EXCEPT !.name = "set", !.key = key],
              ReportDataSet(report.data, key, value), None)
    /\ UNCHANGED files

ReportGet(key) ==
    /\ report.phase = "live"
    /\ LET got == ReportDataGet(report.data, key)
       IN  Called([NoArgs EXCEPT !.name = "get", !.key = key],
                  [data |-> report.data, raised |-> got.raised], got.value)
    /\ UNCHANGED files

ReportSetData(d) ==
    /\ report.phase = "live"
    /\ Called([NoArgs EXCEPT !.name = "set_data"],
              ReportDataSetData(report.data, d), None)
    /\ UNCHANGED files

ReportSetOutputFile(path) ==
    /\ report.phase = "live"
    /\ Called([NoArgs EXCEPT !.name = "set_output_file"],
              [data |-> SetOutputFile(report.data, path), raised |-> FALSE],
              None)
    /\ UNCHANGED files

\* The output strategy is called with the object and a text.
ReportOutput(text) ==
    /\ report.phase = "live"
    /\ LET out == OutputOcrData(report.sink, report.tag, report.data, text,
                                files)
       IN  /\ Called([NoArgs EXCEPT !.name = "output", !.text = text],
                     [data |-> out.row, raised |-> out.raised], None)
           /\ files' = out.files

\* The object is dumped as JSON, the text is loaded and a ReportData is
\* constructed from what was loaded; `returned` is the new object.
ReportRoundTrip ==
    /\ report.phase = "live"
    /\ Called([NoArgs EXCEPT !.name = "json"],
              [data |-> report.data, raised |-> FALSE],
              ReportDataInit(JsonLoad(JsonDump(ReportDataJson(report.data)))))
    /\ UNCHANGED files

NextReportData ==
    \/ \E key \in TriedKeys : \E value \in ValuesOf(key) : ReportSet(key, value)
    \/ \E key \in TriedKeys \cup {"status"} : ReportGet(key)
    \/ \E d \in TriedDicts : ReportSetData(d)
    \/ \E path \in TriedPaths(report.tag) : ReportSetOutputFile(path)
    \/ \E text \in Texts : ReportOutput(text)
    \/ ReportRoundTrip

SpecReportData == InitReportData /\ [][NextReportData]_vars

\* --------------------------------- run_tesseract over a JSON list of files
\* The values --strategy is given: the three strategies and another word.
StrategyArgs == Strategies \cup {"line"}

\* An item of the input list: the dict of a file with this extension.
Item(i, ext) ==
    [origin_filepath |-> [stem |-> i, ext |-> ext],
     origin_filename |-> [stem |-> i, ext |-> ext],
     origin_ext      |-> ext]

\* The input lists: item i names file i, a pdf or a msg file; the longest
\* list has an item more than the largest window.
JsonMaps ==
    UNION {{[i \in 1..n |-> Item(i, ext[i])] : ext \in [1..n -> {"pdf", "msg"}]} :
              n \in 0..(NumAssets + 1)}

\* What os.path.isfile and os.path.getsize find at an item's path.
DiskStates == {"missing", "empty", "data"}

\* What pdf2image and the engine make of a file with data in it.
JobSourceFiles(strategy) ==
    {[raster |-> FALSE, pages |-> <<>>],
     [raster |-> TRUE,
      pages |-> <<IF strategy = "block"
                  THEN [ok |-> TRUE, boxes |-> <<Recognized(<<"a">>, 85)>>]
                  ELSE Recognized(<<"a">>, 85)>>]}

\* The operation run_tesseract constructs with (output_strategy,
\* scrubber_method, nlp_engine).  The constructor of
\* tesseract_operations.TesseractOperationBase takes the output strategy
\* alone; the operation is taken as constructed with the output strategy
\* and without a scrubber, and process_row is the one of the strategy.
TesseractOperation(strategy, row, file, fs) ==
    IF strategy = "doc" THEN ProcessRowDoc(row, file, "ok", fs)
    ELSE IF strategy = "page" THEN ProcessRowPage(row, file, "ok", fs)
    ELSE ProcessRowBlock(row, file, "ok", fs)

NewJob ==
    [phase |-> "new", strategy |-> "page", offset |-> 0, chunk_size |-> 1,
     json_map |-> <<>>, disk |-> <<>>, ikey |-> 0, output |-> <<>>,
     passed |-> <<>>, printed |-> <<>>, error |-> "", filemap |-> None]

InitJob ==
    /\ inputs = [i \in 1..NumAssets |-> PagePdf(i)]
    /\ outputs = {}
    /\ files = <<>>
    /\ dirs = {}
    /\ retry = Unused /\ emr = Unused /\ metadata = <<>> /\ fcall = Unused
    /\ run = IdleRun
    /\ hist = Void
    /\ op = NoCall
    /\ report = Unused /\ stage = Unused
    /\ \E strategy \in StrategyArgs, offset \in Offsets,
          chunk_size \in ChunkSizes, json_map \in JsonMaps :
       \E disk \in [1..Len(json_map) -> DiskStates] :
          job = [NewJob EXCEPT !.strategy = strategy, !.offset = offset,
                               !.chunk_size = chunk_size,
                               !.json_map = json_map, !.disk = disk]

\* run_tesseract up to the loop: the strategy is validated, the operation
\* is constructed and the input list is loaded.
JobBegin ==
    /\ job.phase = "new"
    /\ job' = IF job.strategy \notin Strategies
              THEN [job EXCEPT !.phase = "failed", !.error = "ValueError"]
              ELSE [job EXCEPT !.phase = "loop", !.ikey = 0]
    /\ UNCHANGED <<retry, emr, metadata, fcall, dirs, inputs, outputs, files, run, hist, op, report, stage>>

\* Mutant of SkipReason: an empty file is not skipped.
SkipReasonKeepsEmpty(item_object, disk) ==
    IF ReportDataGet(item_object, "origin_ext").value # <<"pdf">>
    THEN "not a pdf file"
    ELSE IF disk = "missing" THEN "file not found"
    ELSE ""

\* The checks of the loop body on an item in the window: the message
\* printed when the item is skipped, "" when it is processed.
SkipReason(item_object, disk) ==
    IF ReportDataGet(item_object, "origin_ext").value # <<"pdf">>
    THEN "not a pdf file"
    ELSE IF disk = "missing" THEN "file not found"
    ELSE IF disk = "empty" THEN "file is empty"
    ELSE ""

\* `ikey < args.offset`: the item is before the window.
BeforeWindow(ikey, offset) == ikey < offset

\* `ikey >= args.offset + args.chunk_size`: the item is after the window.
AfterWindow(ikey, offset, chunk_size) == ikey >= offset + chunk_size

\* One iteration of `for ikey, item in enumerate(json_map)`, for item
\* json_map[ikey + 1] (ikey counts from 0): continue, skip or process_row.
JobItem ==
    /\ job.phase = "loop"
    /\ job.ikey < Len(job.json_map)
    /\ ~AfterWindow(job.ikey, job.offset, job.chunk_size)
    /\ LET item_object == ReportDataInit(job.json_map[job.ikey + 1]).data
           reason == SkipReason(item_object, job.disk[job.ikey + 1])
       IN  IF BeforeWindow(job.ikey, job.offset)
           THEN /\ job' = [job EXCEPT !.ikey = @ + 1]
                /\ UNCHANGED files
           ELSE IF reason # ""
           THEN /\ job' = [job EXCEPT !.ikey = @ + 1,
                                      !.printed = Append(@, reason)]
                /\ UNCHANGED files
           ELSE \E file \in JobSourceFiles(job.strategy) :
                  LET result == TesseractOperation(job.strategy, item_object,
                                                   file, files)
                  IN  /\ job' = [job EXCEPT
                                   !.ikey = @ + 1,
                                   !.passed = Append(@, job.ikey),
                                   !.output = @ \o result.output]
                      /\ files' = result.files
    /\ UNCHANGED <<retry, emr, metadata, fcall, dirs, inputs, outputs, run, hist, op, report, stage>>

\* The loop ends, at the end of the list or by `break` after the window,
\* and output is dumped to filemap_confidence-<offset>-<end>.json.
JobDump ==
    /\ job.phase = "loop"
    /\ \/ job.ikey >= Len(job.json_map)
       \/ AfterWindow(job.ikey, job.offset, job.chunk_size)
    /\ job' = [job EXCEPT
                 !.phase = "done",
                 !.filemap = [k \in 1..Len(job.output) |->
                                 JsonDump(ReportDataJson(job.output[k]))]]
    /\ UNCHANGED <<retry, emr, metadata, fcall, dirs, inputs, outputs, files, run, hist, op, report, stage>>

NextJob ==
    \/ JobBegin
    \/ JobItem
    \/ JobDump

SpecJob == InitJob /\ [][NextJob]_vars

\* ------------------------- the stages that work on the stored OCR outputs
\* The text artifacts the OCR run left; a text is a sequence of characters.
StageTexts == {<<>>, <<"a">>, <<"a", "b">>}

\* str.replace(target, replacement): the text is scanned from the left, an
\* occurrence of target that starts at the scanned position is replaced and
\* the scan goes on after it, so the occurrences replaced do not overlap;
\* an empty target matches before every character and at the end.
RECURSIVE StrReplace(_, _, _)
StrReplace(text, target, replacement) ==
    IF target = <<>>
    THEN IF text = <<>> THEN replacement
         ELSE replacement \o <<Head(text)>>
                  \o StrReplace(Tail(text), target, replacement)
    ELSE IF Len(text) < Len(target) THEN text
    ELSE IF SubSeq(text, 1, Len(target)) = target
    THEN replacement
             \o StrReplace(SubSeq(text, Len(target) + 1, Len(text)),
                           target, replacement)
    ELSE <<Head(text)>> \o StrReplace(Tail(text), target, replacement)

\* StringReplacer.replace: one str.replace per target string, in order.
RECURSIVE StringReplacerReplace(_, _, _)
StringReplacerReplace(target_strings, replacement_string, text_blob) ==
    IF target_strings = <<>> THEN text_blob
    ELSE StringReplacerReplace(Tail(target_strings), replacement_string,
             StrReplace(text_blob, Head(target_strings), replacement_string))

\* The strings read from the data file and the replacement string given.
TargetStrings == << <<"a">> >>
ReplacementString == <<"X">>

\* scrub_pii: the analyzer finds nothing, or finds the word "a", which the
\* anonymizer replaces.
ScrubPii(text) == {text, StrReplace(text, <<"a">>, <<"<PERSON>">>)}

\* splitext(basename(path))[0]
NameOf(path) ==
    IF "name" \in DOMAIN path THEN path.name
    ELSE [stem |-> path.stem, page |-> path.page, block |-> path.block]

\* A column that holds a path (hasattr and truthy).
IsSet(column) == column # None

\* Mutant of ListReplacementFile: the text is written back to the file it
\* was read from.
ListReplacementInPlace(output_log, document_type) ==
    IF IsSet(output_log.list_replacement_output_file)
    THEN output_log.list_replacement_output_file
    ELSE output_log.ocr_output_file

\* process_file: output_file, the file the replaced text is written to.
ListReplacementFile(output_log, document_type) ==
    IF IsSet(output_log.list_replacement_output_file)
    THEN output_log.list_replacement_output_file
    ELSE [dir  |-> <<"list_replacement_output_file", document_type>>,
          name |-> NameOf(output_log.ocr_output_file)]

\* The file a stage reads: the replacement file if the row has one, else
\* the OCR output.
StageInputFile(output_log) ==
    IF IsSet(output_log.list_replacement_output_file)
    THEN output_log.list_replacement_output_file
    ELSE output_log.ocr_output_file

\* process_files: output_file and confidence_file;
\* `name` is the name in <name>.txt, `confidence` is the name in
\* confidence-<name>.json; "scrubbed" is the directory
\* scrubbed_<document_type>.
ScrubbedFile(input_filepath, document_type) ==
    [dir  |-> <<"scrubbed_text", document_type, "scrubbed">>,
     name |-> NameOf(input_filepath)]

ConfidenceFile(input_filepath, document_type) ==
    [dir        |-> <<"scrubbed_text", document_type, "scrubbed_confidence">>,
     confidence |-> NameOf(input_filepath)]

\* open(path, 'w') and write.
WriteText(fs, path, text) ==
    [p \in DOMAIN fs \cup {path} |-> IF p = path THEN text ELSE fs[p]]

\* get_files_to_process of replace_strings (pii = FALSE) and of
\* pii_scrubber (pii = TRUE): the output rows of inputs of the document
\* type that have an OCR output file (and no scrubbed file yet), in
\* primary-key order, limited to the window.
StageQuery(ins, outs, document_type, chunk_size, offset, pii) ==
    LET ids == {o.id : o \in {x \in outs :
                    /\ ins[x.input_id].document_type = document_type
                    /\ x.ocr_output_file # None
                    /\ pii => x.pii_scrubber_output_file = None}}
    IN  LimitOffset([k \in 1..Cardinality(ids) |->
                        OutputById(outs, SortedSeq(ids)[k])],
                    chunk_size, offset)

\* The UPDATE a flush emits for an object: the columns that were assigned.
UpdateColumns(outs, obj, columns) ==
    {IF o.id = obj.id
     THEN [c \in DOMAIN o |-> IF c \in columns THEN obj[c] ELSE o[c]]
     ELSE o : o \in outs}

RECURSIVE FlushAll(_, _, _)
FlushAll(outs, session, columns) ==
    IF session = <<>> THEN outs
    ELSE FlushAll(UpdateColumns(outs, Head(session), columns), Tail(session),
                  columns)

IdleStage ==
    [name |-> "none", phase |-> "idle", document_type |-> "page",
     batch |-> <<>>, idx |-> 1, session |-> <<>>]

\* The ledger and the disk a finished OCR run by page leaves: for some of
\* the inputs one output row and its text artifact.
OcrRow(i) ==
    [TranscriptionOutput EXCEPT
        !.input_id = i,
        !.ocr_output_file = OutputPath(BasePath("page"), PagePdf(i).input_file,
                                       Unit("page", 1)),
        !.ocr_confidence = Confidence(1)]

InitStages ==
    /\ inputs = [i \in 1..NumAssets |-> PagePdf(i)]
    /\ dirs = {BasePath("page")}
    /\ retry = Unused /\ emr = Unused /\ metadata = <<>> /\ fcall = Unused
    /\ run = IdleRun
    /\ hist = Void
    /\ op = NoCall
    /\ report = Unused /\ job = Unused
    /\ stage = IdleStage
    /\ \E done \in SUBSET (1..NumAssets) :
       \E text \in [done -> StageTexts] :
         /\ outputs = Commit({}, [k \in 1..Cardinality(done) |->
                                    OcrRow(SortedSeq(done)[k])])
         /\ files = [path \in {OcrRow(i).ocr_output_file : i \in done} |->
                        text[path.stem]]

StageUnchanged == UNCHANGED <<retry, emr, metadata, fcall, inputs, dirs, run, hist, op, report, job>>

\* replace_strings, get_files_to_process: the rows to work on are read.
ReplaceStringsGet(document_type, chunk_size, offset) ==
    /\ stage.phase = "idle"
    /\ stage' = [IdleStage EXCEPT
                   !.name = "replace_strings", !.phase = "running",
                   !.document_type = document_type,
                   !.batch = StageQuery(inputs, outputs, document_type,
                                        chunk_size, offset, FALSE)]
    /\ UNCHANGED <<outputs, files>>
    /\ StageUnchanged

\* process_file_wrapper and process_file for the next row: the input file
\* is read, the replaced text is written and the row gets the path, which
\* is committed.
ReplaceStringsFile ==
    /\ stage.name = "replace_strings" /\ stage.phase = "running"
    /\ stage.idx <= Len(stage.batch)
    /\ LET output_log  == stage.batch[stage.idx]
           input_file  == StageInputFile(output_log)
           output_file == ListReplacementFile(output_log, stage.document_type)
       IN  /\ input_file \in DOMAIN files
           /\ files' = WriteText(files, output_file,
                            StringReplacerReplace(TargetStrings,
                                ReplacementString, files[input_file]))
           /\ outputs' = UpdateColumns(outputs,
                            [output_log EXCEPT
                                !.list_replacement_output_file = output_file],
                            {"list_replacement_output_file"})
    /\ stage' = [stage EXCEPT !.idx = @ + 1]
    /\ StageUnchanged

\* process_file catches an exception (the input file cannot be read, or the
\* output file cannot be opened for writing) and returns None: nothing is
\* written and nothing is stored for the row.
ReplaceStringsFileFails ==
    /\ stage.name = "replace_strings" /\ stage.phase = "running"
    /\ stage.idx <= Len(stage.batch)
    /\ stage' = [stage EXCEPT !.idx = @ + 1]
    /\ UNCHANGED <<outputs, files>>
    /\ StageUnchanged

\* pii_scrubber, get_files_to_process.
PiiScrubberGet(document_type, chunk_size, offset) ==
    /\ stage.phase = "idle"
    /\ stage' = [IdleStage EXCEPT
                   !.name = "pii_scrubber", !.phase = "running",
                   !.document_type = document_type,
                   !.batch = StageQuery(inputs, outputs, document_type,
                                        chunk_size, offset, TRUE)]
    /\ UNCHANGED <<outputs, files>>
    /\ StageUnchanged

\* One iteration of the loop of process_files: the scrubbed text is written
\* if it is not empty, the confidence record is written, and the row, with
\* both paths, is in the session.
PiiScrubberFile ==
    /\ stage.name = "pii_scrubber" /\ stage.phase = "running"
    /\ stage.idx <= Len(stage.batch)
    /\ LET output_log     == stage.batch[stage.idx]
           input_filepath == StageInputFile(output_log)
           output_file    == ScrubbedFile(input_filepath, stage.document_type)
           confidence_file ==
               ConfidenceFile(input_filepath, stage.document_type)
       IN  /\ input_filepath \in DOMAIN files
           /\ \E scrubbed_text \in ScrubPii(files[input_filepath]) :
                files' = WriteText(
                             IF scrubbed_text # <<>>
                             THEN WriteText(files, output_file, scrubbed_text)
                             ELSE files,
                             confidence_file,
                             <<"results", files[input_filepath],
                               scrubbed_text>>)
           /\ stage' = [stage EXCEPT
                          !.idx = @ + 1,
                          !.session = Append(@,
                              [output_log EXCEPT
                                 !.pii_scrubber_output_file = output_file,
                                 !.pii_scrubber_confidence_file =
                                     confidence_file])]
    /\ UNCHANGED outputs
    /\ StageUnchanged

\* The read, the analyzer or a write raises: the exception leaves
\* process_files before session.commit().
PiiScrubberFileRaises ==
    /\ stage.name = "pii_scrubber" /\ stage.phase = "running"
    /\ stage.idx <= Len(stage.batch)
    /\ stage' = IdleStage
    /\ UNCHANGED <<outputs, files>>
    /\ StageUnchanged

\* list_scrubber, get_files_to_process of scrubbing_utils: the same query
\* as pii_scrubber's.
ListScrubberGet(document_type, chunk_size, offset) ==
    /\ stage.phase = "idle"
    /\ stage' = [IdleStage EXCEPT
                   !.name = "list_scrubber", !.phase = "running",
                   !.document_type = document_type,
                   !.batch = StageQuery(inputs, outputs, document_type,
                                        chunk_size, offset, TRUE)]
    /\ UNCHANGED <<outputs, files>>
    /\ StageUnchanged

\* One iteration of the loop of scrub_and_write_files of list_scrubber: the
\* input file is read and the replaced text is written, or the write raises
\* OSError, which the inner `except` logs; either way the row gets the path
\* and is added to the session.
ListScrubberFile ==
    /\ stage.name = "list_scrubber" /\ stage.phase = "running"
    /\ stage.idx <= Len(stage.batch)
    /\ LET output_log  == stage.batch[stage.idx]
           input_file  == StageInputFile(output_log)
           output_file == ListReplacementFile(output_log, stage.document_type)
       IN  /\ input_file \in DOMAIN files
           /\ \E written \in BOOLEAN :
                files' = IF written
                         THEN WriteText(files, output_file,
                                  StringReplacerReplace(TargetStrings,
                                      ReplacementString, files[input_file]))
                         ELSE files
           /\ stage' = [stage EXCEPT
                          !.idx = @ + 1,
                          !.session = Append(@,
                              [output_log EXCEPT
                                 !.list_replacement_output_file =
                                     output_file])]
    /\ UNCHANGED outputs
    /\ StageUnchanged

\* The input file cannot be read: the outer `except` logs the exception and
\* the loop goes on with the next row.
ListScrubberFileFails ==
    /\ stage.name = "list_scrubber" /\ stage.phase = "running"
    /\ stage.idx <= Len(stage.batch)
    /\ stage' = [stage EXCEPT !.idx = @ + 1]
    /\ UNCHANGED <<outputs, files>>
    /\ StageUnchanged

\* The columns a stage assigns on the rows it adds to its session.
StageColumns(name) ==
    IF name = "list_scrubber" THEN {"list_replacement_output_file"}
    ELSE {"pii_scrubber_output_file", "pii_scrubber_confidence_file"}

\* The stage's loop is over; pii_scrubber and list_scrubber commit their
\* session.
StageDone ==
    /\ stage.phase = "running"
    /\ stage.idx > Len(stage.batch)
    /\ outputs' = FlushAll(outputs, stage.session, StageColumns(stage.name))
    /\ stage' = IdleStage
    /\ UNCHANGED files
    /\ StageUnchanged

NextStages ==
    \/ \E document_type \in DocumentTypes, chunk_size \in ChunkSizes,
          offset \in Offsets :
          ReplaceStringsGet(document_type, chunk_size, offset)
    \/ ReplaceStringsFile
    \/ ReplaceStringsFileFails
    \/ \E document_type \in DocumentTypes, chunk_size \in ChunkSizes,
          offset \in Offsets :
          PiiScrubberGet(document_type, chunk_size, offset)
    \/ PiiScrubberFile
    \/ PiiScrubberFileRaises
    \/ \E document_type \in DocumentTypes, chunk_size \in ChunkSizes,
          offset \in Offsets :
          ListScrubberGet(document_type, chunk_size, offset)
    \/ ListScrubberFile
    \/ ListScrubberFileFails
    \/ StageDone

SpecStages == InitStages /\ [][NextStages]_vars

\* ------------------------------------------------------------- discovery
\* The number of runs of create_transcription_process that are followed.
MaxDiscoveries == 2

\* Subject ids as DOG_ID_RE finds them in a directory name.
DogIds == {"094-000001", "094-000002"}

\* The directories os.walk yields under path_to_describe, top-down; a
\* directory is the sequence of the components of its path.
Subdirs ==
    << <<"emr">>, <<"emr", "094-000001">>, <<"emr", "094-000002">> >>

\* The names a directory may hold, in the order the walk lists them.
Filenames == << [stem |-> 1, ext |-> "pdf"], [stem |-> 2, ext |-> "msg"] >>

\* Every file a directory of medical records may hold.
EmrFiles ==
    {[subdir |-> Subdirs[d], file |-> Filenames[f]] :
        d \in DOMAIN Subdirs, f \in DOMAIN Filenames}

\* re.search(DOG_ID_RE, subdir): the leftmost subject id in the path of the
\* directory, as a one-element sequence, or nothing when there is none.
DogMatch(subdir) ==
    LET hits == {k \in 1..Len(subdir) : subdir[k] \in DogIds}
    IN  IF hits = {} THEN <<>> ELSE << subdir[Min(hits)] >>

\* filepath = subdir + os.sep + file
Filepath(subdir, file) ==
    [dir |-> subdir, stem |-> file.stem, ext |-> file.ext]

\* The files of one directory the walk adds: none when the directory name
\* holds no subject id, else every file, with the subject id.
WalkSubdir(present, subdir) ==
    IF DogMatch(subdir) = <<>> THEN <<>>
    ELSE LET here == {f \in DOMAIN Filenames :
                         [subdir |-> subdir, file |-> Filenames[f]] \in present}
         IN  [k \in 1..Cardinality(here) |->
                 [filepath |-> Filepath(subdir, Filenames[SortedSeq(here)[k]]),
                  dog_id   |-> DogMatch(subdir)[1]]]

\* The loop over os.walk(args.path_to_describe): one entry per file found.
Walk(present) ==
    Flatten([d \in DOMAIN Subdirs |-> WalkSubdir(present, Subdirs[d])])

\* The files a TranscriptionInput is created for: every file found; there is
\* no look-up of the rows the table already holds.
NewInputs(ins, found, document_type) ==
    found

\* session.add_all(assets) and the commit: a TranscriptionInput per file and
\* its TranscriptionMetadata, with the next ids of their tables.
AddInputs(ins, added, document_type) ==
    ins \o [k \in 1..Len(added) |->
               [input_file |-> added[k].filepath,
                document_type |-> document_type]]

AddMetadata(ins, meta, added) ==
    meta \o [k \in 1..Len(added) |->
                [input_id |-> Len(ins) + k, subject_id |-> added[k].dog_id]]

\* A directory of medical records and an empty database.
InitDiscovery ==
    /\ inputs = <<>>
    /\ metadata = <<>>
    /\ retry = Unused
    /\ outputs = {}
    /\ files = <<>>
    /\ dirs = {}
    /\ fcall = Unused
    /\ run = IdleRun
    /\ hist = Void
    /\ op = NoCall
    /\ report = Unused /\ job = Unused /\ stage = Unused
    /\ \E present \in SUBSET EmrFiles : emr = [files |-> present, log |-> <<>>]

\* do_create_transcription_process ends without an exception: the walk, the
\* rows it builds, add_all and the commit of sessionmaker.begin().
DoCreateTranscriptionProcess(document_type) ==
    /\ emr # Unused
    /\ Len(emr.log) < MaxDiscoveries
    /\ LET added == NewInputs(inputs, Walk(emr.files), document_type)
       IN  /\ inputs' = AddInputs(inputs, added, document_type)
           /\ metadata' = AddMetadata(inputs, metadata, added)
    /\ emr' = [emr EXCEPT !.log = Append(@, [document_type |-> document_type,
                                             status |-> "committed"])]
    /\ UNCHANGED <<outputs, files, run, hist, op, report, job, stage, dirs,
                   fcall, retry>>

\* An exception inside `with sessionmaker.begin()` (the database refuses the
\* flush or the commit): the transaction is rolled back, no row is kept.
DoCreateTranscriptionProcessRaises(document_type) ==
    /\ emr # Unused
    /\ Len(emr.log) < MaxDiscoveries
    /\ emr' = [emr EXCEPT !.log = Append(@, [document_type |-> document_type,
                                             status |-> "failed"])]
    /\ UNCHANGED <<inputs, metadata, outputs, files, run, hist, op, report,
                   job, stage, dirs, fcall, retry>>

NextDiscovery ==
    \/ \E document_type \in DocumentTypeArgs :
          DoCreateTranscriptionProcess(document_type)
    \/ \E document_type \in DocumentTypeArgs :
          DoCreateTranscriptionProcessRaises(document_type)

SpecDiscovery == InitDiscovery /\ [][NextDiscovery]_vars

\* ------------------------------------------- StringReplacer.replace, called
\* The longest text_blob replace is called with.
MaxTextLen == 3

\* The characters of the texts and of the target strings.
Alphabet == {"a", "b"}

TextBlobs == SeqsUpTo(Alphabet, MaxTextLen)

\* The lists of target strings a StringReplacer is built with: any strings,
\* the empty one included, in any order.
TargetLists == SeqsUpTo(SeqsUpTo(Alphabet, MaxTextLen - 1), 2)

\* The replacement strings: empty, of characters no text holds, of
\* characters a text may hold.
ReplacementStrings == {<<>>, <<"X">>, <<"a">>}

\* StringReplacer(target_strings, replacement_string) has been constructed
\* and replace(text_blob) is about to be called.
InitReplacer ==
    /\ inputs = <<>>
    /\ metadata = <<>>
    /\ retry = Unused
    /\ outputs = {}
    /\ files = <<>>
    /\ dirs = {}
    /\ emr = Unused
    /\ run = IdleRun
    /\ hist = Void
    /\ op = NoCall
    /\ report = Unused /\ job = Unused /\ stage = Unused
    /\ \E target_strings \in TargetLists,
          replacement_string \in ReplacementStrings,
          text_blob \in TextBlobs :
          fcall = [phase |-> "ready",
                   target_strings |-> target_strings,
                   replacement_string |-> replacement_string,
                   text_blob |-> text_blob,
                   returned |-> <<>>]

\* replacer.replace(text_blob)
Replace ==
    /\ fcall # Unused
    /\ fcall.phase = "ready"
    /\ "target_strings" \in DOMAIN fcall
    /\ fcall' = [fcall EXCEPT
           !.phase = "returned",
           !.returned = StringReplacerReplace(fcall.target_strings,
                            fcall.replacement_string, fcall.text_blob)]
    /\ UNCHANGED <<inputs, metadata, outputs, files, dirs, emr, run, hist, op,
                   report, job, stage, retry>>

NextReplacer == Replace

SpecReplacer == InitReplacer /\ [][NextReplacer]_vars

\* -------------------------------------- get_date_pairs_within_days, called
\* The longest list of dates get_date_pairs_within_days is called with.
MaxDates == 2

\* datetime values, counted in half days from some day at 00:00.
Datetimes == {0, 1, 2, 3, 5}

\* The values of --visit_date_threshold (any int).
Days == {-1, 0, 1, 2}

\* timedelta(days=days), in half days.
Timedelta(days) == 2 * days

Abs(x) == IF x < 0 THEN -x ELSE x

\* The inner loop: the index of the first extracted date within the
\* threshold of visit_date (the loop breaks there), 0 when there is none.
FirstWithin(extracted_dates, visit_date, days) ==
    LET within == {k \in 1..Len(extracted_dates) :
                      Abs(extracted_dates[k] - visit_date) <= Timedelta(days)}
    IN  IF within = {} THEN 0 ELSE Min(within)

\* Mutant of GetDatePairsWithinDays: the inner loop has no break.
GetDatePairsNoBreak(extracted_dates, visit_dates, days) ==
    {<<visit_dates[i], extracted_dates[k]>> :
        <<i, k>> \in {ik \in (1..Len(visit_dates)) \X (1..Len(extracted_dates)) :
            Abs(extracted_dates[ik[2]] - visit_dates[ik[1]])
                <= Timedelta(days)}}

\* get_date_pairs_within_days: result_pairs after the two loops.
GetDatePairsWithinDays(extracted_dates, visit_dates, days) ==
    {<<visit_dates[i],
       extracted_dates[FirstWithin(extracted_dates, visit_dates[i], days)]>> :
        i \in {j \in 1..Len(visit_dates) :
                  FirstWithin(extracted_dates, visit_dates[j], days) # 0}}

\* get_date_pairs_within_days is about to be called with any two lists of
\* dates and any threshold.
InitDatePairs ==
    /\ inputs = <<>>
    /\ metadata = <<>>
    /\ retry = Unused
    /\ outputs = {}
    /\ files = <<>>
    /\ dirs = {}
    /\ emr = Unused
    /\ run = IdleRun
    /\ hist = Void
    /\ op = NoCall
    /\ report = Unused /\ job = Unused /\ stage = Unused
    /\ \E extracted_dates \in SeqsUpTo(Datetimes, MaxDates),
          visit_dates \in SeqsUpTo(Datetimes, MaxDates),
          days \in Days :
          fcall = [phase |-> "ready",
                   extracted_dates |-> extracted_dates,
                   visit_dates |-> visit_dates,
                   days |-> days,
                   result_pairs |-> {}]

\* get_date_pairs_within_days(extracted_dates, visit_dates, days)
DatePairs ==
    /\ fcall # Unused
    /\ fcall.phase = "ready"
    /\ "visit_dates" \in DOMAIN fcall
    /\ fcall' = [fcall EXCEPT
           !.phase = "returned",
           !.result_pairs = GetDatePairsWithinDays(fcall.extracted_dates,
                                fcall.visit_dates, fcall.days)]
    /\ UNCHANGED <<inputs, metadata, outputs, files, dirs, emr, run, hist, op,
                   report, job, stage, retry>>

NextDatePairs == DatePairs

SpecDatePairs == InitDatePairs /\ [][NextDatePairs]_vars

\* ----------------------------------------------- run_tesseract, repeated
\* What process_row does with a source file, on every attempt: it gives
\* units ("ok"), it gives an empty list ("blank"), or it raises ("raises").
Scans == {"ok", "blank", "raises"}

\* transcribe_pdfs.py is about to be run again and again with the same
\* document type and chunk size and with offset 0, over a ledger and source
\* files that do not change.
InitRetries ==
    /\ inputs \in InitialInputs
    /\ outputs = {}
    /\ files = <<>>
    /\ dirs = {}
    /\ emr = Unused /\ metadata = <<>> /\ fcall = Unused
    /\ run = IdleRun
    /\ hist = Void
    /\ op = NoCall
    /\ report = Unused /\ job = Unused /\ stage = Unused
    /\ \E document_type \in DocumentTypes, chunk_size \in ChunkSizes,
          scans \in [1..NumAssets -> Scans] :
          retry = [document_type |-> document_type,
                   chunk_size |-> chunk_size, scans |-> scans]

\* The next invocation starts.
RetryQuery ==
    /\ retry # Unused
    /\ RunTesseractQuery(retry.document_type, retry.chunk_size, 0)

\* process_row returns for the row at hand: no unit for a blank scan, at
\* least one for a good one.
RetryRow ==
    /\ run.status = "running"
    /\ run.idx <= Len(run.rows)
    /\ retry.scans[CurrentPair.input] # "raises"
    /\ RunTesseractRow
    /\ (retry.scans[CurrentPair.input] = "blank")
           <=> (run'.produced = run.produced)

\* process_row raises for the row at hand.
RetryRaises ==
    /\ run.status = "running"
    /\ run.idx <= Len(run.rows)
    /\ retry.scans[CurrentPair.input] = "raises"
    /\ ProcessRowRaises

\* The loop is over and the transaction commits.
RetryCommit ==
    /\ retry # Unused
    /\ RunTesseractCommit

NextRetries ==
    \/ RetryQuery
    \/ RetryRow
    \/ RetryRaises
    \/ RetryCommit

\* The script is run again whenever it has ended, and a run that has started
\* goes on to its end: some step is always taken.
SpecRetries == InitRetries /\ [][NextRetries]_vars /\ WF_vars(NextRetries)

\* ================================================================ claims
HasOcrOutput(outs, i) ==
    \E o \in outs : o.input_id = i /\ o.ocr_output_file # None

Selected(rows) == {rows[k].input : k \in 1..Len(rows)}

Starts  == run.status # "running" /\ run'.status = "running"
Aborts  == run.status = "running" /\ run'.status \in {"failed", "crashed"}
Commits == run.status = "running" /\ run'.status = "committed"

\* C1: once an asset has a committed output row with a non-null OCR output
\* file, no run that starts afterwards, whatever its offset and chunk_size,
\* has that asset among the rows it selects (and it processes only those).
C1_CompletedAssetNotReselected ==
    [][Starts => \A i \in Selected(run'.rows) : ~HasOcrOutput(outputs, i)]_vars

\* A run over the whole ledger has started while an asset of its document
\* type already had its output row, and selected the others only.
C1_Witness ==
    /\ run.status = "running"
    /\ run.offset = 0 /\ run.chunk_size = NumAssets
    /\ run.rows # <<>>
    /\ \E i \in 1..NumAssets :
        /\ HasOcrOutput(outputs, i)
        /\ LikePdf(inputs[i].input_file)
        /\ inputs[i].document_type = run.document_type
        /\ i \notin Selected(run.rows)

\* C2: in every reachable ledger state of runs made one after another, runs
\* that stop before their commit and are retried included, no two output
\* rows with a non-null OCR output file have the same (asset, page, block).
Triple(o) == <<o.input_id, o.ocr_output_file.page, o.ocr_output_file.block>>

C2_OneOutputPerUnit ==
    \A o1, o2 \in outputs :
        (/\ o1.ocr_output_file # None
         /\ o2.ocr_output_file # None
         /\ Triple(o1) = Triple(o2)) => o1 = o2

\* A run was retried after an abort (hist is Void, files of the aborted run
\* are on disk) and has committed, and every asset it could take has a row.
C2_Witness ==
    /\ run.status = "committed"
    /\ hist.void
    /\ Cardinality(outputs) >= 2
    /\ \A i \in 1..NumAssets :
        (LikePdf(inputs[i].input_file) /\ inputs[i].document_type = "page")
            => HasOcrOutput(outputs, i)

\* C3: a run that stops before its commit leaves the ledger as it was when
\* the run started (none of its rows, every earlier row), and the same query
\* over the same window selects the same rows again.
C3_AbortLeavesLedgerUntouched ==
    [][Aborts =>
        /\ outputs' = run.snapshot
        /\ inputs' = inputs
        /\ Query(inputs', outputs', run.document_type, run.chunk_size,
                 run.offset) = run.rows]_vars

\* A run has stopped after processing at least one row with units, in a
\* ledger that holds rows of an earlier window.
C3_Witness ==
    /\ run.status \in {"failed", "crashed"}
    /\ run.idx > 1
    /\ outputs # {}
    /\ \E p \in DOMAIN files : \A o \in outputs : o.ocr_output_file # p

\* C4 (as claimed): a failure while processing one asset of a window (its
\* process_row raises, or its text artifact cannot be written) does not stop
\* the window: the loop goes on with the next row.
C4_AssetFailureKeepsWindow ==
    [][(ProcessRowRaises \/ WriteFileRaises) =>
        /\ run'.status = "running"
        /\ run'.idx = run.idx + 1]_vars

\* C5 (as claimed): when runs of one document type with pairwise disjoint
\* windows that cover all assets pending at the start have all committed,
\* every such asset was processed by exactly one of them.
Pending0(document_type) ==
    Selected(Query(inputs, {}, document_type, NumAssets, 0))

C5_DisjointWindowsProcessEachOnce ==
    (/\ ~hist.void
     /\ run.status = "committed"
     /\ hist.type \in DocumentTypes
     /\ 0..(Cardinality(Pending0(hist.type)) - 1) \subseteq hist.covered)
        => \A i \in Pending0(hist.type) : hist.processed[i] = 1

\* C6 (as claimed): after a window commits, the ledger holds, for every unit
\* process_row produced for every asset of the window, a row with that
\* unit's own output path and confidence.
C6_OneRowPerUnit ==
    [][Commits =>
        \A k \in 1..Len(run.produced) :
            LET p == run.produced[k]
            IN  \E o \in outputs' :
                    /\ o.input_id = p.input
                    /\ o.ocr_output_file =
                           OutputPath(BasePath(run.document_type),
                                      inputs[p.input].input_file, p.unit)
                    /\ o.ocr_confidence = p.unit.confidence]_vars

\* ---------------------------------------------------- strategies' claims
Done(strategy) == op.phase = "done" /\ op.strategy = strategy

AllOk(q) == \A k \in 1..Len(q) : q[k].ok

\* The recognition outcomes of the units of the file, in order: its pages
\* (Page strategy) or the boxes of its pages (Block strategy).
UnitOutcomes ==
    IF op.strategy = "block"
    THEN Flatten([pg \in 1..Len(op.file.pages) |-> op.file.pages[pg].boxes])
    ELSE op.file.pages

\* C7 (as claimed): under the Page and Block strategies a failure
\* recognising unit k gives only that unit status error; all the other
\* units of the file, also those after k, are recognised and emitted.
C7_FailureMarksOnlyItsUnit ==
    (/\ op.phase = "done"
     /\ op.strategy \in {"page", "block"}
     /\ op.file.raster
     /\ op.sink # "fails"
     /\ op.strategy = "block" => AllOk(op.file.pages))
        => /\ Len(op.output) = Len(UnitOutcomes)
           /\ \A k \in 1..Len(UnitOutcomes) :
                op.output[k]["status"] =
                    IF UnitOutcomes[k].ok THEN "processed" ELSE "error"

\* C8 (as claimed): when rasterising fails, process_row of each strategy
\* does not raise, reports the file with at least one unit, every reported
\* unit has status error, and no text artifact is written.
C8_RasterFailureReported ==
    (op.phase = "done" /\ ~op.file.raster)
        => /\ ~op.raised
           /\ Len(op.output) >= 1
           /\ \A k \in 1..Len(op.output) : op.output[k]["status"] = "error"
           /\ files = <<>>

\* The pages with non-empty text and confidence > 0, in page order.
QualifyingPages ==
    SelectSeq(op.file.pages, LAMBDA p : p.ok /\ p.text # <<>> /\ p.conf > 0)

\* The qualifying pages' texts in page order, each after the "\n" the
\* strategy separates pages with.
DocText ==
    Flatten([k \in 1..Len(QualifyingPages) |->
                <<"\n">> \o QualifyingPages[k].text])

DocPath == [dir |-> <<"unstructured_text", "doc">>, stem |-> 1, count |-> 1]

C10_NoContentIsDefined ==
    (/\ Done("doc")
     /\ op.file.raster
     /\ AllOk(op.file.pages)
     /\ QualifyingPages = <<>>)
        => /\ Len(op.output) = 1
           /\ op.caught # "ZeroDivisionError"
           /\ op.output[1]["status"] # "error"

\* The result row has the key, with this value.
Has(row, key, value) == key \in DOMAIN row /\ row[key] = value

\* C11: for a file whose n pages are all recognised (and whose artifacts the
\* output sink can write), the Page strategy returns exactly n results in
\* page order; result k has page = k, status processed and the confidence
\* the engine gave for page k alone.
C11_PageResultPerPage ==
    (/\ Done("page")
     /\ op.file.raster
     /\ AllOk(op.file.pages)
     /\ op.sink # "fails")
        => /\ ~op.raised
           /\ Len(op.output) = Len(op.file.pages)
           /\ \A k \in 1..Len(op.file.pages) :
                /\ Has(op.output[k], "page", k)
                /\ Has(op.output[k], "status", "processed")
                /\ Has(op.output[k], "confidence", op.file.pages[k].conf)

\* The Page strategy has returned for a file of two recognised pages with
\* different confidences, two results.
C11_Witness ==
    /\ Done("page")
    /\ op.file.raster /\ AllOk(op.file.pages)
    /\ op.sink = "ok"
    /\ Len(op.file.pages) = 2
    /\ op.file.pages[1].conf # op.file.pages[2].conf
    /\ Len(op.output) = 2

\* The Block strategy's rows carry no page number: its results are the
\* regions' rows in page order, so the results of page pg are the ones after
\* those of the pages before it.
PageOffset(pg) ==
    Len(Flatten([p \in 1..(pg - 1) |-> op.file.pages[p].boxes]))

ResultsForPage(pg) ==
    {k \in 1..Len(op.output) :
        /\ k > PageOffset(pg)
        /\ k <= PageOffset(pg) + Len(op.file.pages[pg].boxes)}

\* C12 (as claimed): under the Block strategy, for every page of the file
\* the number of results emitted for that page is the number of regions the
\* engine returned for it, every result belongs to some page, and the
\* result of a recognised region carries that region's confidence.
C12_BlockResultPerRegion ==
    (/\ Done("block")
     /\ op.file.raster
     /\ AllOk(op.file.pages)
     /\ op.sink # "fails")
        => /\ Len(op.output) = Len(UnitOutcomes)
           /\ \A pg \in 1..Len(op.file.pages) :
                /\ Cardinality(ResultsForPage(pg)) =
                       Len(op.file.pages[pg].boxes)
                /\ \A i \in 1..Len(op.file.pages[pg].boxes) :
                     op.file.pages[pg].boxes[i].ok =>
                        /\ Has(op.output[PageOffset(pg) + i], "block", i)
                        /\ Has(op.output[PageOffset(pg) + i], "confidence",
                               op.file.pages[pg].boxes[i].conf)

\* The same when every region of the file is recognised.
C12_AllRegionsRecognised ==
    AllOk(UnitOutcomes) => C12_BlockResultPerRegion

\* The units of the call as the engine saw them: the whole file for the
\* Document strategy (its text is the qualifying pages' text), else the
\* pages or the regions.
BlankUnit(k) ==
    IF op.strategy = "doc" THEN op.handed = <<<<>>>>
    ELSE UnitOutcomes[k].text = <<>>

NumUnits == IF op.strategy = "doc" THEN 1 ELSE Len(UnitOutcomes)

\* C13 (as claimed): for every strategy, when all the file is recognised,
\* (the engine giving confidence 0 with an empty text), a unit with empty
\* text still gives a result, with status processed and confidence 0 and
\* without an output path, and every artifact on disk is the one of a unit
\* with text.
C13_BlankUnitIsProcessed ==
    (/\ op.phase = "done"
     /\ op.file.raster
     /\ AllOk(op.file.pages)
     /\ AllOk(UnitOutcomes)
     /\ \A k \in 1..Len(UnitOutcomes) :
            UnitOutcomes[k].text = <<>> => UnitOutcomes[k].conf = 0
     /\ op.sink # "fails")
        => /\ Len(op.output) = NumUnits
           /\ \A k \in 1..NumUnits : BlankUnit(k) =>
                /\ Has(op.output[k], "status", "processed")
                /\ "confidence" \in DOMAIN op.output[k]
                /\ IF op.strategy = "doc"
                   THEN op.output[k]["confidence"].sum = 0
                   ELSE op.output[k]["confidence"] = 0
                /\ "output_filepath" \notin DOMAIN op.output[k]
           /\ \A path \in DOMAIN files : \E k \in 1..NumUnits :
                ~BlankUnit(k) /\ Has(op.output[k], "output_filepath", path)

\* The same for the Page and Block strategies only.
C13_BlankPageOrRegion ==
    op.strategy # "doc" => C13_BlankUnitIsProcessed

\* ------------------------------------------------ ReportData's claims
Live(name) == report.phase = "live" /\ report.call.name = name

\* The disk and the object after the output strategy is called once more
\* with the same arguments as the call just made.
OutputAgain ==
    OutputOcrData(report.sink, report.tag, report.data, report.call.text,
                  files)

\* C14: the output strategy called with an empty text writes no file and
\* leaves the ReportData as it was; called with a text, it leaves the file
\* with exactly that text, and a second call with the same strategy type,
\* object and text leaves the disk and the object as the first call did.
C14_SinkNoOpAndIdempotent ==
    Live("output") =>
        /\ report.call.text = <<>> =>
            /\ report.data = report.before.data
            /\ files = report.before.files
            /\ ~report.raised
        /\ (report.call.text # <<>> /\ ~report.raised) =>
            /\ report.data["output_filepath"] \in DOMAIN files
            /\ files[report.data["output_filepath"]] = report.call.text
        /\ OutputAgain =
              [row |-> report.data, files |-> files, raised |-> report.raised]

\* The output strategy has written a text over a file that held another
\* text.
C14_Witness ==
    /\ Live("output")
    /\ report.call.text # <<>> /\ ~report.raised
    /\ \E path \in DOMAIN report.before.files :
         /\ path = report.data["output_filepath"]
         /\ report.before.files[path] # report.call.text
         /\ files[path] = report.call.text

\* C15: set with a key outside item_keys raises; get with a key outside
\* item_keys raises; get with a key of item_keys that has not been set
\* raises; set with a key of item_keys and get of a key that has been set
\* do not raise.
C15_ClosedKeySet ==
    /\ Live("set") => (report.raised <=> report.call.key \notin item_keys)
    /\ Live("get") =>
        /\ report.call.key \notin item_keys => report.raised
        /\ report.call.key \notin DOMAIN report.before.data => report.raised
        /\ report.call.key \in DOMAIN report.before.data =>
            /\ ~report.raised
            /\ report.returned = <<report.before.data[report.call.key]>>
    /\ report.phase = "live" => DOMAIN report.data \subseteq item_keys

\* get has raised for a key of item_keys on an object that has other keys
\* set.
C15_Witness ==
    /\ Live("get")
    /\ report.call.key \in item_keys
    /\ report.call.key \notin DOMAIN report.data
    /\ "page" \in DOMAIN report.data
    /\ report.raised

InJobWindow(ikey) ==
    job.offset <= ikey /\ ikey < job.offset + job.chunk_size

\* C17: in the run over a JSON list, every item handed to process_row is a
\* pdf item whose file exists and is not empty, and its index is in
\* [offset, offset + chunk_size).
C17_OnlyEligibleItemsProcessed ==
    job.phase \in {"loop", "done"} =>
        \A n \in 1..Len(job.passed) :
            LET ikey == job.passed[n]
            IN  /\ InJobWindow(ikey)
                /\ job.json_map[ikey + 1]["origin_ext"] = "pdf"
                /\ job.disk[ikey + 1] = "data"

\* A run is done that handed one item to process_row and left out an item
\* before the window and, in the window, an empty pdf file.
C17_Witness ==
    /\ job.phase = "done"
    /\ Len(job.passed) = 1
    /\ \E ikey \in 0..(Len(job.json_map) - 1) :
         /\ InJobWindow(ikey)
         /\ job.json_map[ikey + 1]["origin_ext"] = "pdf"
         /\ job.disk[ikey + 1] = "empty"
    /\ \E ikey \in 0..(Len(job.json_map) - 1) :
         /\ ~InJobWindow(ikey)
         /\ job.json_map[ikey + 1]["origin_ext"] = "pdf"
         /\ job.disk[ikey + 1] = "data"

\* The status the claim gives a skipped item.
SkipStatus(reason) ==
    IF reason = "not a pdf file" THEN "skipped"
    ELSE IF reason = "file not found" THEN "file-not-found"
    ELSE "file-empty"

\* C18 (as claimed): when the run over a JSON list is done, every item in
\* the window that was skipped is in the run's output, with status skipped
\* (not a pdf), file-not-found or file-empty.
C18_SkippedItemsRecorded ==
    job.phase = "done" =>
        \A ikey \in 0..(Len(job.json_map) - 1) :
            LET item == job.json_map[ikey + 1]
                reason == SkipReason(item, job.disk[ikey + 1])
            IN  (InJobWindow(ikey) /\ reason # "") =>
                    \E k \in 1..Len(job.output) :
                        /\ job.output[k]["origin_filepath"] =
                               item["origin_filepath"]
                        /\ Has(job.output[k], "status", SkipStatus(reason))

\* ------------------------------------------------ configuration errors
Rejects == run.status # "running" /\ run'.status = "rejected"

\* C19 (as claimed): a ledger run given a document type outside the three
\* allowed ones ends with the configuration error before anything is done:
\* no output directory is created, no artifact is written and the ledger is
\* not touched; and no run with such a type ever reads the ledger.
C19_RejectedBeforeAnyEffect ==
    [][/\ Rejects => /\ dirs' = dirs
                     /\ files' = files
                     /\ outputs' = outputs
       /\ run'.status = "running" => run'.document_type \in DocumentTypes]_vars

\* The same for the run over a JSON list: a strategy outside the three
\* allowed ones ends the run before the list is read, any item is looked
\* at or anything is written.
C19_JobRejectedBeforeAnyEffect ==
    job.strategy \notin Strategies =>
        /\ job.phase \in {"new", "failed"}
        /\ job.ikey = 0 /\ job.passed = <<>> /\ job.output = <<>>
        /\ job.filemap = None
        /\ files = <<>> /\ dirs = {}

\* ------------------------------------------------------ stages' claims
\* The columns the OCR run owns.
OcrColumns == {"id", "input_id", "ocr_output_file", "ocr_confidence"}

OcrArtifacts == {o.ocr_output_file : o \in outputs} \ {None}

\* C20: a step of the list replacement stage or of the PII scrubbing stage
\* leaves, on every output row, the OCR output path, the OCR confidence and
\* the owning input as they were, writes no column but the stage's own
\* path columns, and leaves every OCR text artifact on disk with the
\* content it had.
C20_StagesKeepOcrResult ==
    [][/\ \A o \in outputs : \E n \in outputs' :
            /\ \A c \in OcrColumns : n[c] = o[c]
            /\ stage.name = "replace_strings" =>
                /\ n.pii_scrubber_output_file = o.pii_scrubber_output_file
                /\ n.pii_scrubber_confidence_file =
                       o.pii_scrubber_confidence_file
            /\ stage.name = "pii_scrubber" =>
                n.list_replacement_output_file = o.list_replacement_output_file
       /\ Cardinality(outputs') = Cardinality(outputs)
       /\ \A path \in OcrArtifacts :
            path \in DOMAIN files => /\ path \in DOMAIN files'
                                     /\ files'[path] = files[path]]_vars

\* Both stages have worked on a row: it names a replacement file and a
\* scrubbed file, the replacement file holds the replaced text and the OCR
\* artifact still holds the word that was replaced.
C20_Witness ==
    \E o \in outputs :
        /\ IsSet(o.list_replacement_output_file)
        /\ IsSet(o.pii_scrubber_output_file)
        /\ o.list_replacement_output_file \in DOMAIN files
        /\ files[o.ocr_output_file] = <<"a", "b">>
        /\ files[o.list_replacement_output_file] = <<"X", "b">>
        /\ o.pii_scrubber_output_file \in DOMAIN files

\* ---------------------------------------------------------------- C21
\* The discovery runs that committed.
Committed(log) == {k \in 1..Len(log) : log[k].status = "committed"}

InputsOf(filepath) ==
    {i \in 1..Len(inputs) : inputs[i].input_file = filepath}

MetadataOf(filepath) ==
    {m \in 1..Len(metadata) : metadata[m].input_id \in InputsOf(filepath)}

\* C21: after any number of discovery runs over the same directory with the
\* same document type (one of them at least committed), the ledger holds
\* exactly one transcription_input row and exactly one metadata row per
\* discovered file path.
C21_OneAssetPerFile ==
    (/\ Committed(emr.log) # {}
     /\ \A j, k \in 1..Len(emr.log) :
            emr.log[j].document_type = emr.log[k].document_type)
    => \A k \in 1..Len(Walk(emr.files)) :
          /\ Cardinality(InputsOf(Walk(emr.files)[k].filepath)) = 1
          /\ Cardinality(MetadataOf(Walk(emr.files)[k].filepath)) = 1

\* One committed run: one row per discovered file (holds), the case the
\* second run then breaks.
C21_AfterFirstRun ==
    Cardinality(Committed(emr.log)) = 1
    => \A k \in 1..Len(Walk(emr.files)) :
          /\ Cardinality(InputsOf(Walk(emr.files)[k].filepath)) = 1
          /\ Cardinality(MetadataOf(Walk(emr.files)[k].filepath)) = 1

\* ---------------------------------------------------------------- C22
\* target occurs in text, as a run of consecutive characters.
Occurs(target, text) ==
    \E k \in 1..(Len(text) - Len(target) + 1) :
        SubSeq(text, k, k + Len(target) - 1) = target

Chars(s) == {s[k] : k \in 1..Len(s)}

\* replace has returned, every target string it was given is non-empty.
ReplacedNonEmptyTargets ==
    /\ fcall.phase = "returned"
    /\ \A t \in Chars(fcall.target_strings) : t # <<>>

\* C22: for any list of non-empty targets and any text, the text that
\* StringReplacer.replace returns contains no occurrence of a target that is
\* not part of an inserted replacement. Stated for the replacement strings
\* that share no character with a target, where an occurrence of a target in
\* the result can never be part of an inserted replacement: the result then
\* holds no occurrence of any target at all.
C22_NoTargetLeft ==
    (/\ ReplacedNonEmptyTargets
     /\ \A t \in Chars(fcall.target_strings) :
            Chars(t) \cap Chars(fcall.replacement_string) = {})
    => \A t \in Chars(fcall.target_strings) : ~Occurs(t, fcall.returned)

\* The rest of the claim: an empty list of targets, or targets none of which
\* occurs in the text, give the text back unchanged, and an empty text gives
\* an empty text (holds).
C22_UnchangedAndEmpty ==
    ReplacedNonEmptyTargets
    => /\ (\A t \in Chars(fcall.target_strings) : ~Occurs(t, fcall.text_blob))
              => fcall.returned = fcall.text_blob
       /\ fcall.text_blob = <<>> => fcall.returned = <<>>

\* With a replacement that is not empty and shares no character with a
\* target, no target is left (holds).
C22_NoTargetLeftDisjoint ==
    (/\ ReplacedNonEmptyTargets
     /\ fcall.replacement_string = <<"X">>)
    => \A t \in Chars(fcall.target_strings) : ~Occurs(t, fcall.returned)

\* ---------------------------------------------------------------- C23
ListReplacementPath(outs, id) ==
    OutputById(outs, id).list_replacement_output_file

\* A call of process_file of replace_strings has been made and is over.
ProcessFileCalled ==
    /\ stage.name = "replace_strings" /\ stage.phase = "running"
    /\ stage'.name = "replace_strings" /\ stage'.idx = stage.idx + 1

\* C23: process_file on a row without a list-replacement file reads the OCR
\* output file and records
\* <output_dir>/list_replacement_output_file/<document_type>/<OCR name>.txt,
\* which then holds the replaced text; on a row that has a list-replacement
\* file it rewrites that file in place and the recorded path stays; on a
\* failure the recorded path is unchanged. So a recorded path never changes
\* once the first successful run has set it.
C23_ListReplacementPathSetOnce ==
    [][/\ \A o \in outputs :
            o.list_replacement_output_file # None
            => ListReplacementPath(outputs', o.id)
                   = o.list_replacement_output_file
       /\ ProcessFileCalled =>
            LET output_log == stage.batch[stage.idx]
                before == ListReplacementPath(outputs, output_log.id)
                after  == ListReplacementPath(outputs', output_log.id)
            IN  \/ after = before /\ outputs' = outputs
                \/ /\ before = None
                   /\ after = [dir  |-> <<"list_replacement_output_file",
                                          stage.document_type>>,
                               name |-> NameOf(output_log.ocr_output_file)]
                   /\ files'[after] =
                          StringReplacerReplace(TargetStrings,
                              ReplacementString,
                              files[output_log.ocr_output_file])
      ]_vars

\* A run of replace_strings has worked on a row that had its list-replacement
\* file from an earlier run: the row names the same file, which holds the
\* text replaced again.
C23_Witness ==
    /\ stage.name = "replace_strings" /\ stage.phase = "running"
    /\ stage.idx > 1
    /\ stage.batch[1].list_replacement_output_file # None
    /\ ListReplacementPath(outputs, stage.batch[1].id)
           = stage.batch[1].list_replacement_output_file
    /\ stage.batch[1].list_replacement_output_file \in DOMAIN files
    /\ files[stage.batch[1].list_replacement_output_file] = <<"X", "b">>

\* ---------------------------------------------------------------- C24
\* extracted date number k lies within the threshold of visit_date.
Within(k, visit_date) ==
    Abs(fcall.extracted_dates[k] - visit_date) <= Timedelta(fcall.days)

\* C24: get_date_pairs_within_days returns a set of (visit_date,
\* extracted_date) pairs, each of a visit date and an extracted date of the
\* lists that are at most `days` apart; a visit date is in at most one pair,
\* it is in a pair exactly when some extracted date lies within the
\* threshold, and its partner is the first such extracted date in list
\* order; an empty list of either kind gives the empty set.
C24_DatePairs ==
    fcall.phase = "returned" =>
        LET E == fcall.extracted_dates
            V == fcall.visit_dates
            R == fcall.result_pairs
        IN  /\ \A p \in R :
                  /\ \E i \in 1..Len(V) : V[i] = p[1]
                  /\ \E k \in 1..Len(E) :
                        /\ E[k] = p[2]
                        /\ Within(k, p[1])
                        /\ \A j \in 1..(k - 1) : ~Within(j, p[1])
            /\ \A p, q \in R : p[1] = q[1] => p = q
            /\ \A i \in 1..Len(V) :
                  (\E p \in R : p[1] = V[i])
                  <=> (\E k \in 1..Len(E) : Within(k, V[i]))
            /\ (E = <<>> \/ V = <<>>) => R = {}

\* A call where a visit date has two extracted dates within the threshold,
\* the nearer one second, and is paired with the first; another visit date
\* has none and is in no pair.
C24_Witness ==
    /\ fcall.phase = "returned"
    /\ fcall.days = 1
    /\ fcall.extracted_dates = <<2, 1>>
    /\ fcall.visit_dates = <<1, 5>>
    /\ fcall.result_pairs = {<<1, 2>>}

\* ---------------------------------------------------------------- C25
\* The instances that are open after the first n events.
OpenAfter(events, n) ==
    {events[k].api : k \in {j \in 1..n : events[j].event = "acquire"}}
    \ {events[k].api : k \in {j \in 1..n : events[j].event = "release"}}

\* C25: during process_row of any strategy an engine instance is acquired
\* per page image and released before the next page image is handled and on
\* every exit path: never are two instances open at once, an instance is
\* acquired once, used only while it is open and only for the page image it
\* was acquired for, and none is open when process_row returns.
C25_EngineScopedPerPage ==
    op.phase = "done" =>
        LET events == op.engine
        IN  /\ \A n \in 0..Len(events) :
                  Cardinality(OpenAfter(events, n)) <= 1
            /\ OpenAfter(events, Len(events)) = {}
            /\ \A j, k \in 1..Len(events) :
                  /\ events[j].api = events[k].api
                         => events[j].image = events[k].image
                  /\ (/\ j # k
                      /\ events[j].event = "acquire"
                      /\ events[k].event = "acquire")
                         => /\ events[j].api # events[k].api
                            /\ events[j].image # events[k].image
            /\ \A k \in 1..Len(events) :
                  events[k].event = "use"
                      => events[k].api \in OpenAfter(events, k)

\* A file was read by regions; the first page went through, recognition
\* raised on the second: both instances were acquired and released.
C25_Witness ==
    /\ op.phase = "done" /\ op.strategy = "block"
    /\ op.caught = "RuntimeError"
    /\ Len(op.file.pages) = 2
    /\ op.file.pages[1].ok /\ Len(op.file.pages[1].boxes) = 2
    /\ op.file.pages[2].ok /\ Len(op.file.pages[2].boxes) = 1
    /\ op.engine[Len(op.engine)] = Release(2, 2)
    /\ \E k \in 1..Len(op.engine) : op.engine[k] = Release(1, 1)

\* ---------------------------------------------------------------- C26
\* process_row has returned for a file all of whose pages and regions were
\* recognised, with the output strategy of get_output_strategy writing the
\* artifacts.
AllEmitted(strategies) ==
    /\ op.phase = "done" /\ op.strategy \in strategies
    /\ op.sink = "ok"
    /\ op.file.raster
    /\ AllOk(op.file.pages)
    /\ AllOk(UnitOutcomes)

\* Units j and k of the file are two units with text.
TwoUnitsWithText(j, k) ==
    /\ j # k
    /\ UnitOutcomes[j].text # <<>>
    /\ UnitOutcomes[k].text # <<>>

\* C26: for any source file and any strategy, two distinct emitted units
\* with non-empty text are never written to the same artifact path, so no
\* unit's text overwrites another unit's text (in particular block i of
\* page 1 and block i of page 2 under the Block strategy).
C26_DistinctArtifactPaths ==
    AllEmitted({"page", "block"})
    => \A j, k \in 1..Len(UnitOutcomes) :
          TwoUnitsWithText(j, k)
          => /\ op.output[j]["output_filepath"]
                    # op.output[k]["output_filepath"]
             /\ files[op.output[j]["output_filepath"]] = UnitOutcomes[j].text

\* Under the Page strategy the paths are distinct, one per page (holds).
C26_PageArtifactPathsDistinct ==
    AllEmitted({"page"})
    => \A j, k \in 1..Len(UnitOutcomes) :
          TwoUnitsWithText(j, k)
          => /\ op.output[j]["output_filepath"]
                    # op.output[k]["output_filepath"]
             /\ files[op.output[j]["output_filepath"]] = UnitOutcomes[j].text

\* ---------------------------------------------------------------- C27
\* Recognising the unit raises, or the output strategy raises on its text.
UnitFails(u) == ~u.ok \/ (op.sink = "fails" /\ u.text # <<>>)

\* What process_row goes through, in order: the units of the file (pages,
\* or the regions of the pages) and, under the Block strategy, the pages
\* that cannot be segmented, which fail without a unit at hand.
Steps ==
    IF op.strategy = "block"
    THEN Flatten([pg \in 1..Len(op.file.pages) |->
             IF op.file.pages[pg].ok
             THEN [i \in 1..Len(op.file.pages[pg].boxes) |->
                      [unit  |-> TRUE,
                       fails |-> UnitFails(op.file.pages[pg].boxes[i])]]
             ELSE << [unit |-> FALSE, fails |-> TRUE] >>])
    ELSE [pg \in 1..Len(op.file.pages) |->
             [unit |-> TRUE, fails |-> UnitFails(op.file.pages[pg])]]

\* The first step that fails, Len(Steps) + 1 when none does.
FirstFailure == Min({k \in 1..Len(Steps) : Steps[k].fails} \cup {Len(Steps) + 1})

\* The units before the first failure are the first entries of the list,
\* with status processed, and the list holds nothing after them but the row
\* of the unit that failed, if the failure was one of a unit.
EmittedOnceAndKept(strategies) ==
    (/\ op.phase = "done" /\ op.strategy \in strategies
     /\ op.file.raster)
    => /\ Len(op.output) >= FirstFailure - 1
       /\ \A k \in 1..(FirstFailure - 1) :
             Has(op.output[k], "status", "processed")
       /\ Len(op.output) <=
             (FirstFailure - 1)
             + (IF FirstFailure <= Len(Steps) /\ Steps[FirstFailure].unit
                THEN 1 ELSE 0)

\* C27: in the list process_row returns (Page and Block strategies) every
\* emitted unit appears exactly once and a unit appended with status
\* processed keeps it: a later failure in the same file (opening or
\* segmenting a later page) neither changes an emitted unit to error nor
\* appends it a second time.
C27_EmittedOnceAndKept == EmittedOnceAndKept({"page", "block"})

\* The Page strategy alone keeps its emitted units (holds).
C27_PageEmittedOnceAndKept == EmittedOnceAndKept({"page"})

\* ---------------------------------------------------------------- C28
\* The assets the repeated run is for and whose OCR can succeed.
CanSucceed ==
    {i \in 1..NumAssets :
        /\ retry.scans[i] = "ok"
        /\ LikePdf(inputs[i].input_file)
        /\ inputs[i].document_type = retry.document_type}

\* C28: when the coordinator is run repeatedly with offset 0 and a fixed
\* chunk_size over a fixed set of assets, eventually every asset whose OCR
\* can succeed has a committed output row with an OCR output file, even when
\* other assets fail or yield no units on every attempt.
C28_SucceedingAssetsComplete ==
    <>(\A i \in CanSucceed : HasOcrOutput(outputs, i))

\* The same when no process_row ever raises and some scans are blank: the
\* blank ones alone keep the window (violated as well).
C28_CompleteDespiteBlankScans ==
    (\A i \in 1..NumAssets : retry.scans[i] # "raises")
    => <>(\A i \in CanSucceed : HasOcrOutput(outputs, i))

\* When no asset of the ledger fails or is blank, the repeated runs do
\* complete every asset (holds).
C28_CompleteWithoutFailures ==
    (\A i \in 1..NumAssets : retry.scans[i] = "ok")
    => <>(\A i \in CanSucceed : HasOcrOutput(outputs, i))

\* ---------------------------------------------------------------- C29
\* The columns of a ledger row that hold the path of a file of a stage.
PathColumns ==
    {"ocr_output_file", "list_replacement_output_file",
     "pii_scrubber_output_file", "pii_scrubber_confidence_file"}

\* C29: every file path recorded by a stage on a ledger row (OCR output
\* path, list-replacement path, scrubbed text path, confidence-record path)
\* names a file that was written: when the text to write is empty or the
\* write fails, no path for it is recorded.
C29_RecordedPathsWritten ==
    \A o \in outputs : \A c \in PathColumns :
        o[c] # None => o[c] \in DOMAIN files

\* The same for the Unit Records process_row returns, with the output
\* strategy of get_output_strategy: a record that has an output path names a
\* file that was written (violated as well: the path is set before the file
\* is opened).
C29_UnitRecordPathsWritten ==
    op.phase = "done" =>
        \A k \in 1..Len(op.output) :
            "output_filepath" \in DOMAIN op.output[k]
                => op.output[k]["output_filepath"] \in DOMAIN files

\* replace_strings alone records the path of a file it wrote (holds).
C29_ReplaceStringsPathsWritten ==
    [][(stage.name = "replace_strings" /\ stage'.name = "replace_strings")
        => \A o \in outputs' :
              (/\ o.list_replacement_output_file # None
               /\ o \notin outputs)
              => o.list_replacement_output_file \in DOMAIN files']_vars


\* C30: a write on a ReportData that raises leaves the object as it was:
\* set with a key outside item_keys stores nothing, set_data with a dict
\* that has a key outside item_keys raises and stores none of the dict's
\* keys, a constructor given such a dict leaves self.data empty, and
\* set_output_file does not raise; the keys of the object are always keys
\* of item_keys.
C30_FailedWriteChangesNothing ==
    /\ (Live("set") /\ report.call.key \notin item_keys) =>
        report.raised /\ report.data = report.before.data
    /\ (Live("set_data") /\ report.raised) =>
        report.data = report.before.data
    /\ report.phase = "live" =>
        \A d \in TriedDicts :
            ~(DOMAIN d \subseteq item_keys) =>
                ReportDataSetData(report.data, d) =
                    [data |-> report.data, raised |-> TRUE]
    /\ report.phase = "unborn" => report.raised /\ report.data = <<>>
    /\ Live("set_output_file") => ~report.raised
    /\ DOMAIN report.data \subseteq item_keys

\* set_data has raised on an object that has keys set, and "page", a key
\* of item_keys in the dict that was refused, is not among them.
C30_Witness ==
    /\ Live("set_data")
    /\ report.raised
    /\ report.data = report.before.data
    /\ "origin_filepath" \in DOMAIN report.data
    /\ "page" \notin DOMAIN report.data

====
